---- MODULE Spec2Model ----
(***************************************************************************)
(* Spectrogram worker of the bioacoustics annotator                        *)
(* (src/renderer/spectrogram/SpectrogramPlayer.tsx, lines 48-468).         *)
(*                                                                         *)
(* The worker owns a PCM store and a mel tile cache.  Its message handler  *)
(* is an async function: everything up to the first real asynchronous     *)
(* operation (off.convertToBlob()) runs in the task that dispatches the    *)
(* message (the `await ensureWasmInitialized()` continuation is a          *)
(* microtask of that same task), the rest runs when the blob promise       *)
(* settles.  The event loop dispatches the next message as soon as the     *)
(* current task ends, whether or not an earlier handler is still awaiting. *)
(*                                                                         *)
(* Data abstraction.  A Float32Array of PCM is an audio identity with a    *)
(* length; a subarray is [pcm, start, stop].  The frame the spectral       *)
(* primitive computes at index k of a slice is identified by the audio,    *)
(* the analysis parameters and the absolute sample offset start + k*hop.   *)
(* A flattened mel buffer is a sequence of runs of consecutive frames      *)
(* ([pcm, ap, off, n]: n frames at offsets off, off+hop, ...), each frame  *)
(* standing for n_mels float values.                                       *)
(*                                                                         *)
(* Times are whole seconds and sampleRate / hop_length is an integer for   *)
(* every parameter set with a positive hop_length, so the double           *)
(* arithmetic of framesForWindow is exact and equals the integer           *)
(* arithmetic below; hop_length = 0 yields NaN, kept as a value of its own.*)
(*                                                                         *)
(* The caller is the pair SpectrogramProvider / SpectrogramGraphics        *)
(* (src/unnamed/part_003, src/renderer/spectrogram/SpectrogramViewer.tsx): *)
(* each commit of the components runs the effects that post init, set_pcm  *)
(* and render.  Spec and its variants drive the worker with any message    *)
(* sequence; CallerSpec drives it with the sequences the effects produce,  *)
(* hands the replies to worker.onmessage and ends with the unmount.        *)
(*                                                                         *)
(* TilingSpec applies analyzeTiles to single frame ranges.  RasterSpec     *)
(* applies the display mapper and the rasterizer (lines 224-279) to single *)
(* mel buffers, with JavaScript numbers as exact rationals, NaN and the    *)
(* infinities.  KeyingSpec builds the text of tile keys character by       *)
(* character; the tuple tileKey returns elsewhere stands for that text.    *)
(* TaskSpec splits the handlers at every await and queues their            *)
(* continuations as microtasks.  ViewportSpec and HeldSpec are the         *)
(* viewport of SpectrogramProvider (start time, playback position,         *)
(* duration) under user events and under its auto-scroll effect.           *)
(***************************************************************************)
EXTENDS Integers, Sequences, FiniteSets, TLC

VARIABLES
    inbox,          \* messages posted to the worker, not yet dispatched
    wasmReady,      \* let wasmReady
    pcmStore,       \* const pcmStore = new Map()
    melTileCache,   \* const melTileCache = new Map()
    awaiting,       \* render handlers suspended at `await off.convertToBlob()`
    replies,        \* messages posted back to the caller, in posting order
    sent,           \* every message posted so far, in arrival order (history)
    log,            \* one record per dispatched message, in dispatch order (history)
    center,         \* framing convention of the external spectral primitive
    caller,         \* state of the React components that own the worker
    tiling,         \* one application of analyzeTiles: its frame range and its result
    raster,         \* the display mapping of one render: its inputs, locals and pixels
    keying,         \* two applications of tileKey: their arguments and their keys
    viewport,       \* viewport state of SpectrogramProvider: duration, times, loading
    micro           \* microtask queue of the worker: handlers resuming after their first await

vars == <<inbox, sent, wasmReady, pcmStore, melTileCache, awaiting, replies, log, center,
          caller, tiling, raster, keying, viewport, micro>>

----------------------------------------------------------------------------
(* Bounds *)

MaxMsgs == 3

----------------------------------------------------------------------------
(* Program constants and the inputs the model draws from *)

TILE_FRAMES == 1024

FileIds == {"f1", "f2"}

\* decoded audio buffers handed to set_pcm: 60 s and 10 s at 16384 Hz
Audios == { [id |-> 1, len |-> 983040], [id |-> 2, len |-> 163840] }

\* requested windows <<t0, windowDuration>> in seconds: at 64 frames per second
\* 20 s are one full tile and a short one, 48 s are three full tiles, and t0 = 16
\* starts exactly one tile after t0 = 0
Windows == { <<0, 20>>, <<16, 20>>, <<0, 48>> }

\* the analysis settings of SettingsContext, for a file sampled at 16384 Hz
AnalysisParams ==
    { [sampleRate |-> 16384, n_fft |-> 2048, win_length |-> 1024, hop_length |-> 256,
       f_min |-> 10, f_max |-> 8000, n_mels |-> 64, top_db |-> 80] }

\* the display settings of SettingsContext and an edited set; gammaValue,
\* brightness and contrast in tenths
DefaultDisplay ==
    [dynamicGain |-> TRUE, autoGamma |-> TRUE, gammaValue |-> 10, gainPercentile |-> 98,
     brightness |-> 0, contrast |-> 10, colormap |-> "viridis"]

EditedDisplay ==
    [dynamicGain |-> FALSE, autoGamma |-> FALSE, gammaValue |-> 14, gainPercentile |-> 95,
     brightness |-> 1, contrast |-> 12, colormap |-> "gray"]

DisplayParams == {DefaultDisplay, EditedDisplay}

NoEntry == [none |-> TRUE]

\* the element of a one-element set
Only(S) == CHOOSE x \in S : TRUE

Min(a, b) == IF a < b THEN a ELSE b
Max(a, b) == IF a > b THEN a ELSE b

\* the double NaN, as a value no finite frame number takes
NaN == -999999999

----------------------------------------------------------------------------
(* Messages *)

InitMsg == [type |-> "init"]

SetPcmMsg(f, a) == [type |-> "set_pcm", fileId |-> f, sampleRate |-> 16384, pcm |-> a]

RenderParams(ap, dp, t0, wd) ==
    [sampleRate |-> ap.sampleRate, n_fft |-> ap.n_fft, win_length |-> ap.win_length,
     hop_length |-> ap.hop_length, f_min |-> ap.f_min, f_max |-> ap.f_max,
     n_mels |-> ap.n_mels, top_db |-> ap.top_db,
     t0 |-> t0, windowDuration |-> wd,
     dynamicGain |-> dp.dynamicGain, autoGamma |-> dp.autoGamma,
     gammaValue |-> dp.gammaValue, gainPercentile |-> dp.gainPercentile,
     brightness |-> dp.brightness, contrast |-> dp.contrast, colormap |-> dp.colormap]

RenderMsg(f, p) == [type |-> "render", fileId |-> f, params |-> p]

\* the display-only part of the render parameters
DisplayOf(p) ==
    [dynamicGain |-> p.dynamicGain, autoGamma |-> p.autoGamma, gammaValue |-> p.gammaValue,
     gainPercentile |-> p.gainPercentile, brightness |-> p.brightness,
     contrast |-> p.contrast, colormap |-> p.colormap]

\* the analysis part of the render parameters
AnalysisOf(p) ==
    <<p.sampleRate, p.n_fft, p.win_length, p.hop_length, p.n_mels, p.f_min, p.f_max, p.top_db>>

Msgs ==
    {InitMsg}
    \cup { SetPcmMsg(f, a) : f \in FileIds, a \in Audios }
    \cup { RenderMsg(f, RenderParams(ap, dp, w[1], w[2])) :
             f \in FileIds, ap \in AnalysisParams, dp \in DisplayParams, w \in Windows }

\* the messages of a caller that loads one file and never edits the display settings
PlainMsgs ==
    { m \in Msgs :
        /\ m.type = "set_pcm" => (m.fileId = "f1" /\ m.pcm.id = 1)
        /\ m.type = "render" => DisplayOf(m.params) = DefaultDisplay }

----------------------------------------------------------------------------
(* Tile keys *)

\* variant of tileKey: the display settings are part of the key as well
tileKey_withDisplay(fileId, startFrame, tileFrames, p) ==
    <<fileId, startFrame, tileFrames, p.sampleRate, p.n_fft, p.win_length,
      p.hop_length, p.n_mels, p.f_min, p.f_max, p.top_db,
      p.dynamicGain, p.gainPercentile, p.autoGamma, p.gammaValue, p.brightness,
      p.contrast, p.colormap>>

\* variant of tileKey: the start frame is not part of the key
tileKey_noStartFrame(fileId, startFrame, tileFrames, p) ==
    <<fileId, 0, tileFrames, p.sampleRate, p.n_fft, p.win_length,
      p.hop_length, p.n_mels, p.f_min, p.f_max, p.top_db>>

tileKey(fileId, startFrame, tileFrames, p) ==
    <<fileId, startFrame, tileFrames, p.sampleRate, p.n_fft, p.win_length,
      p.hop_length, p.n_mels, p.f_min, p.f_max, p.top_db>>

----------------------------------------------------------------------------
(* Typed arrays and the external spectral primitive *)

\* Float32Array.prototype.subarray(begin, end): both indices clamped to the array
subarray(pcm, begin, end) ==
    LET b == Min(Max(begin, 0), pcm.len)
        e == Min(Max(end, 0), pcm.len)
    IN [pcm |-> pcm.id, start |-> b, stop |-> Max(b, e)]

\* number of frames the primitive returns for a slice of len samples
NumFrames(len, p, centered) ==
    IF centered THEN 1 + (len \div p.hop_length)
    ELSE IF len < p.n_fft THEN 0
    ELSE 1 + ((len - p.n_fft) \div p.hop_length)

\* mel_spectrogram_db(sampleRate, slice, n_fft, ...): one row per output frame,
\* row k computed from the samples at slice offset k * hop_length
mel_spectrogram_db(p, slice, centered) ==
    [pcm |-> slice.pcm, ap |-> AnalysisOf(p), off |-> slice.start,
     n |-> NumFrames(slice.stop - slice.start, p, centered)]

\* Array.prototype.slice(from, to) on the rows of the primitive
sliceFrames(run, from, to) ==
    LET a == Min(from, run.n)
        b == Min(to, run.n)
    IN [run EXCEPT !.off = run.off + a * run.ap[4], !.n = Max(b - a, 0)]

\* append the frames of run r to buffer buf (adjacent runs of consecutive frames are one run)
AppendRun(buf, r) ==
    IF r.n = 0 THEN buf
    ELSE IF buf = <<>> THEN <<r>>
    ELSE LET l == buf[Len(buf)]
         IN IF l.pcm = r.pcm /\ l.ap = r.ap /\ r.off = l.off + l.n * l.ap[4]
            THEN [buf EXCEPT ![Len(buf)].n = l.n + r.n]
            ELSE Append(buf, r)

flattenMel(melFrames, n_mels) == AppendRun(<<>>, melFrames)

RECURSIVE concatFrom(_, _, _)
concatFrom(tiles, i, out) ==
    IF i > Len(tiles) THEN out
    ELSE LET t == tiles[i]
         IN concatFrom(tiles, i + 1, IF t = <<>> THEN out ELSE AppendRun(out, t[1]))

concatTiles(tiles) == concatFrom(tiles, 1, <<>>)

----------------------------------------------------------------------------
(* Window assembler *)

\* variant of framesForWindow: totalFrames is not raised to at least 1
framesForWindow_noMax(p) ==
    LET F0 == (p.t0 * p.sampleRate) \div p.hop_length
        totalFrames == (p.windowDuration * p.sampleRate) \div p.hop_length
    IN [F0 |-> F0, F1 |-> F0 + totalFrames - 1]

\* With hop_length = 0 framesPerSecond is Infinity; at t0 = 0 (the only start time
\* requested with such parameters) t0 * framesPerSecond is NaN, and so are F0 and F1.
framesForWindow(p) ==
    IF p.hop_length = 0 /\ p.t0 = 0
    THEN [F0 |-> NaN, F1 |-> NaN]
    ELSE LET F0 == (p.t0 * p.sampleRate) \div p.hop_length
             totalFrames == Max(1, (p.windowDuration * p.sampleRate) \div p.hop_length)
         IN [F0 |-> F0, F1 |-> F0 + totalFrames - 1]

\* variant of neededTiles: the tiles lie on the global grid of TILE_FRAMES boundaries
RECURSIVE neededTiles_gridAligned(_, _)
neededTiles_gridAligned(cursor, F1) ==
    IF cursor <= F1
    THEN LET start == (cursor \div TILE_FRAMES) * TILE_FRAMES
         IN <<[startFrame |-> start, frames |-> TILE_FRAMES]>>
            \o neededTiles_gridAligned(start + TILE_FRAMES, F1)
    ELSE <<>>


\* variant of neededTiles: the last tile is not shortened to end at F1
RECURSIVE neededTiles_fullLastTile(_, _)
neededTiles_fullLastTile(cursor, F1) ==
    IF cursor <= F1
    THEN <<[startFrame |-> cursor, frames |-> TILE_FRAMES]>>
         \o neededTiles_fullLastTile(cursor + TILE_FRAMES, F1)
    ELSE <<>>
RECURSIVE neededTiles(_, _)
neededTiles(cursor, F1) ==
    IF cursor # NaN /\ F1 # NaN /\ cursor <= F1
    THEN LET frames == Min(TILE_FRAMES, F1 - cursor + 1)
         IN <<[startFrame |-> cursor, frames |-> frames]>> \o neededTiles(cursor + frames, F1)
    ELSE <<>>

\* variant of missingScan: every uncached tile is pushed as a segment of its own
RECURSIVE missingScan_perTile(_, _, _, _, _, _, _, _)
missingScan_perTile(cache, fileId, p, needed, i, segStart, segEnd, missing) ==
    IF i > Len(needed) THEN missing
    ELSE LET tile == needed[i]
             key == tileKey(fileId, tile.startFrame, tile.frames, p)
         IN IF key \in DOMAIN cache
            THEN missingScan_perTile(cache, fileId, p, needed, i + 1, -1, -1, missing)
            ELSE missingScan_perTile(cache, fileId, p, needed, i + 1, -1, -1,
                     Append(missing, [startFrame |-> tile.startFrame, frames |-> tile.frames]))

\* variant of missingScan: the cache is never consulted, every needed tile is missing
RECURSIVE missingScan_noLookup(_, _, _, _, _, _, _, _)
missingScan_noLookup(cache, fileId, p, needed, i, segStart, segEnd, missing) ==
    IF needed = <<>> THEN <<>>
    ELSE <<[startFrame |-> needed[1].startFrame,
            frames |-> needed[Len(needed)].startFrame + needed[Len(needed)].frames
                       - needed[1].startFrame]>>

\* the loop `for (const tile of needed)` of analyzeTiles with its segStart/segEnd state
RECURSIVE missingScan(_, _, _, _, _, _, _, _)
missingScan(cache, fileId, p, needed, i, segStart, segEnd, missing) ==
    IF i > Len(needed)
    THEN IF segStart # -1
         THEN Append(missing, [startFrame |-> segStart, frames |-> segEnd - segStart + 1])
         ELSE missing
    ELSE LET tile == needed[i]
             key == tileKey(fileId, tile.startFrame, tile.frames, p)
             isCached == key \in DOMAIN cache
             closed == Append(missing, [startFrame |-> segStart, frames |-> segEnd - segStart + 1])
             tEnd == tile.startFrame + tile.frames - 1
         IN IF isCached
            THEN IF segStart # -1
                 THEN missingScan(cache, fileId, p, needed, i + 1, -1, -1, closed)
                 ELSE missingScan(cache, fileId, p, needed, i + 1, segStart, segEnd, missing)
            ELSE IF segStart = -1
                 THEN missingScan(cache, fileId, p, needed, i + 1, tile.startFrame, tEnd, missing)
                 ELSE IF tile.startFrame = segEnd + 1
                      THEN missingScan(cache, fileId, p, needed, i + 1, segStart, tEnd, missing)
                      ELSE missingScan(cache, fileId, p, needed, i + 1, tile.startFrame, tEnd, closed)

analyzeTiles(cache, fileId, F0, F1, p) ==
    LET needed == neededTiles(F0, F1)
    IN [needed |-> needed,
        missing |-> missingScan(cache, fileId, p, needed, 1, -1, -1, <<>>)]

\* const startSample = Math.max(0, seg.startFrame * hop - pad)
startSample(seg, p) == Max(0, seg.startFrame * p.hop_length - p.n_fft)

\* const endSample = Math.min(pcmEntry.pcm.length, (seg.startFrame + seg.frames) * hop + pad)
endSample(pcm, seg, p) ==
    Min(pcm.len, (seg.startFrame + seg.frames) * p.hop_length + p.n_fft)

\* the PCM slice of a segment: n_fft samples of padding on both sides, clamped
segmentSlice(pcm, seg, p) == subarray(pcm, startSample(seg, p), endSample(pcm, seg, p))


\* variant of populateTiles: every chunk is keyed with the full tile width
RECURSIVE populateTiles_fullWidthKeys(_, _, _, _, _, _)
populateTiles_fullWidthKeys(cache, fileId, seg, p, usable, cursor) ==
    IF cursor < seg.frames
    THEN LET thisFrames == Min(TILE_FRAMES, seg.frames - cursor)
             tileFrames == sliceFrames(usable, cursor, cursor + thisFrames)
             flat == flattenMel(tileFrames, p.n_mels)
             tStart == seg.startFrame + cursor
             key == tileKey(fileId, tStart, TILE_FRAMES, p)
             set == (key :> flat) @@ cache
         IN populateTiles_fullWidthKeys(set, fileId, seg, p, usable, cursor + thisFrames)
    ELSE cache
\* the loop `while (cursor < seg.frames)` of computeSegmentAndPopulateTiles
RECURSIVE populateTiles(_, _, _, _, _, _)
populateTiles(cache, fileId, seg, p, usable, cursor) ==
    IF cursor < seg.frames
    THEN LET thisFrames == Min(TILE_FRAMES, seg.frames - cursor)
             tileFrames == sliceFrames(usable, cursor, cursor + thisFrames)
             flat == flattenMel(tileFrames, p.n_mels)
             tStart == seg.startFrame + cursor
             key == tileKey(fileId, tStart, thisFrames, p)
             set == (key :> flat) @@ cache
         IN populateTiles(set, fileId, seg, p, usable, cursor + thisFrames)
    ELSE cache

\* computeSegmentAndPopulateTiles after a successful call of the primitive
computeSegmentAndPopulateTiles(cache, pcmEntry, fileId, seg, p, centered) ==
    LET slice == segmentSlice(pcmEntry.pcm, seg, p)
        melFrames == mel_spectrogram_db(p, slice, centered)
        framesPerPad == p.n_fft \div p.hop_length
        usable == sliceFrames(melFrames, framesPerPad, framesPerPad + seg.frames)
    IN populateTiles(cache, fileId, seg, p, usable, 0)

\* variant of computeMissing: a segment of a file with no PCM is skipped, not refused
RECURSIVE computeMissing_noLoadedCheck(_, _, _, _, _, _, _, _)
computeMissing_noLoadedCheck(cache, store, fileId, p, missing, i, failAt, centered) ==
    IF i > Len(missing) THEN [cache |-> cache, calls |-> i - 1, thrown |-> "none"]
    ELSE IF store[fileId] = NoEntry
         THEN computeMissing_noLoadedCheck(cache, store, fileId, p, missing, i + 1, failAt, centered)
    ELSE IF failAt = i
         THEN [cache |-> cache, calls |-> i, thrown |-> "primitive failure"]
    ELSE computeMissing_noLoadedCheck(
             computeSegmentAndPopulateTiles(cache, store[fileId], fileId, missing[i], p, centered),
             store, fileId, p, missing, i + 1, failAt, centered)

\* variant of computeMissing: the tiles of a segment are stored before the failure
\* of its call is noticed
RECURSIVE computeMissing_commitThenRaise(_, _, _, _, _, _, _, _)
computeMissing_commitThenRaise(cache, store, fileId, p, missing, i, failAt, centered) ==
    IF i > Len(missing) THEN [cache |-> cache, calls |-> i - 1, thrown |-> "none"]
    ELSE IF store[fileId] = NoEntry
         THEN [cache |-> cache, calls |-> i - 1, thrown |-> "PCM not loaded for fileId"]
    ELSE IF failAt = i
         THEN [cache |-> computeSegmentAndPopulateTiles(cache, store[fileId], fileId,
                                                        missing[i], p, centered),
               calls |-> i, thrown |-> "primitive failure"]
    ELSE computeMissing_commitThenRaise(
             computeSegmentAndPopulateTiles(cache, store[fileId], fileId, missing[i], p, centered),
             store, fileId, p, missing, i + 1, failAt, centered)

\* the loop `for (const seg of missing)` of assembleWindowMel; failAt is the index of the
\* call of the primitive that raises (0: none does)
RECURSIVE computeMissing(_, _, _, _, _, _, _, _)
computeMissing(cache, store, fileId, p, missing, i, failAt, centered) ==
    IF i > Len(missing) THEN [cache |-> cache, calls |-> i - 1, thrown |-> "none"]
    ELSE IF store[fileId] = NoEntry
         THEN [cache |-> cache, calls |-> i - 1, thrown |-> "PCM not loaded for fileId"]
    ELSE IF failAt = i
         THEN [cache |-> cache, calls |-> i, thrown |-> "primitive failure"]
    ELSE computeMissing(
             computeSegmentAndPopulateTiles(cache, store[fileId], fileId, missing[i], p, centered),
             store, fileId, p, missing, i + 1, failAt, centered)

assembleWindowMel(cache, store, fileId, p, failAt, centered) ==
    LET F == framesForWindow(p)
        \* the body of the function once analyzeTiles (a) and the loop over the
        \* missing segments (c) have been evaluated
        finish(a, c) ==
            LET keys == [i \in 1..Len(a.needed) |->
                            tileKey(fileId, a.needed[i].startFrame, a.needed[i].frames, p)]
                allPresent == \A i \in 1..Len(keys) : keys[i] \in DOMAIN c.cache
                tiles == [i \in 1..Len(keys) |-> c.cache[keys[i]]]
            IN [needed |-> a.needed, missing |-> a.missing, cache |-> c.cache,
                calls |-> c.calls,
                thrown |-> IF c.thrown # "none" THEN c.thrown
                           ELSE IF ~allPresent THEN "TypeError" ELSE "none",
                mel |-> IF c.thrown = "none" /\ allPresent THEN concatTiles(tiles) ELSE <<>>,
                frames |-> IF F.F0 = NaN \/ F.F1 = NaN THEN NaN ELSE F.F1 - F.F0 + 1]
    IN Only({ Only({ finish(a, c) :
                       c \in {computeMissing(cache, store, fileId, p, a.missing, 1,
                                             failAt, centered)} }) :
              a \in {analyzeTiles(cache, fileId, F.F0, F.F1, p)} })

----------------------------------------------------------------------------
(* The worker: self.onmessage *)

\* arrival number of the message at the head of the inbox
HeadSeq == Len(sent) - Len(inbox) + 1

\* the blob of a rendered window: the mel buffer rasterized width x height under
\* the display parameters
ImageOf(mel, frames, p) ==
    [placeholder |-> FALSE, width |-> frames, height |-> p.n_mels, mel |-> mel,
     display |-> DisplayOf(p)]

\* new OffscreenCanvas(1, 1).convertToBlob()
PlaceholderImage ==
    [placeholder |-> TRUE, width |-> 1, height |-> 1, mel |-> <<>>, display |-> NoEntry]

\* self.postMessage({ type: 'image', blob })
imageReply(seq, blob) == [seq |-> seq, type |-> "image", blob |-> blob, error |-> ""]

\* self.postMessage({ type: 'error', error: err.message })
errorReply(seq, message) == [seq |-> seq, type |-> "error", blob |-> NoEntry, error |-> message]

\* SpectrogramProvider and SpectrogramGraphics before their first commit: the
\* useState initial values, no file shown and no fetch in flight
\* (dataURL "", lastObjectUrlRef null, written 0); urls is the set of object URLs
\* created and not revoked, created counts URL.createObjectURL calls, delivered
\* counts the replies handed to worker.onmessage, shown is the request whose image
\* is displayed, terminated tells that the component was unmounted
Unmounted ==
    [mounted |-> FALSE, fileId |-> "", audioSamples |-> NoEntry, sampleRate |-> 32000,
     startTime |-> 0, display |-> DefaultDisplay, loading |-> {},
     dataURL |-> 0, lastObjectUrl |-> 0, urls |-> {}, created |-> 0, delivered |-> 0,
     shown |-> 0, terminated |-> FALSE]

LogEntry(seq, msg) ==
    [seq |-> seq, type |-> msg.type,
     fileId |-> IF msg.type = "init" THEN "" ELSE msg.fileId,
     params |-> IF msg.type = "render" THEN msg.params ELSE NoEntry,
     loaded |-> FALSE, needed |-> <<>>, missing |-> <<>>, calls |-> 0,
     thrown |-> "none", mel |-> <<>>, frames |-> 0]

\* the worker module freshly evaluated and the components not yet mounted
WorkerInit ==
    /\ inbox = <<>>
    /\ sent = <<>>
    /\ wasmReady = FALSE
    /\ pcmStore = [f \in FileIds |-> NoEntry]
    /\ melTileCache = <<>>
    /\ awaiting = {}
    /\ micro = <<>>
    /\ replies = <<>>
    /\ log = <<>>
    /\ center \in BOOLEAN
    /\ caller = Unmounted

Init ==
    /\ WorkerInit
    /\ tiling = NoEntry
    /\ raster = NoEntry
    /\ keying = NoEntry
    /\ viewport = NoEntry

\* the caller's worker.postMessage(m)
Post(m) ==
    /\ Len(sent) < MaxMsgs
    /\ sent' = Append(sent, m)
    /\ inbox' = Append(inbox, m)
    /\ UNCHANGED <<wasmReady, pcmStore, melTileCache, awaiting, replies, log, center, caller,
                 tiling, raster, keying, viewport, micro>>

\* msg.type === 'init'
HandleInit ==
    /\ inbox # <<>>
    /\ inbox[1].type = "init"
    /\ inbox' = Tail(inbox)
    /\ wasmReady' = TRUE
    /\ log' = Append(log, LogEntry(HeadSeq, inbox[1]))
    /\ UNCHANGED <<sent, pcmStore, melTileCache, awaiting, replies, center, caller,
                 tiling, raster, keying, viewport, micro>>

\* variant of HandleSetPcm: storing new PCM also drops the file's cached tiles
HandleSetPcm_invalidating ==
    /\ inbox # <<>>
    /\ inbox[1].type = "set_pcm"
    /\ inbox' = Tail(inbox)
    /\ pcmStore' = [pcmStore EXCEPT ![inbox[1].fileId] =
                       [sampleRate |-> inbox[1].sampleRate, pcm |-> inbox[1].pcm]]
    /\ melTileCache' = [k \in {q \in DOMAIN melTileCache : q[1] # inbox[1].fileId} |->
                           melTileCache[k]]
    /\ log' = Append(log, LogEntry(HeadSeq, inbox[1]))
    /\ UNCHANGED <<sent, wasmReady, awaiting, replies, center, caller,
                 tiling, raster, keying, viewport, micro>>

\* variant of HandleSetPcm: PCM is stored for a file only if none is stored yet
HandleSetPcm_onlyIfAbsent ==
    /\ inbox # <<>>
    /\ inbox[1].type = "set_pcm"
    /\ inbox' = Tail(inbox)
    /\ pcmStore' = IF pcmStore[inbox[1].fileId] = NoEntry
                   THEN [pcmStore EXCEPT ![inbox[1].fileId] =
                            [sampleRate |-> inbox[1].sampleRate, pcm |-> inbox[1].pcm]]
                   ELSE pcmStore
    /\ log' = Append(log, LogEntry(HeadSeq, inbox[1]))
    /\ UNCHANGED <<sent, wasmReady, melTileCache, awaiting, replies, center, caller,
                 tiling, raster, keying, viewport, micro>>

\* msg.type === 'set_pcm'
HandleSetPcm ==
    /\ inbox # <<>>
    /\ inbox[1].type = "set_pcm"
    /\ inbox' = Tail(inbox)
    /\ pcmStore' = [pcmStore EXCEPT ![inbox[1].fileId] =
                       [sampleRate |-> inbox[1].sampleRate, pcm |-> inbox[1].pcm]]
    /\ log' = Append(log, LogEntry(HeadSeq, inbox[1]))
    /\ UNCHANGED <<sent, wasmReady, melTileCache, awaiting, replies, center, caller,
                 tiling, raster, keying, viewport, micro>>

\* what the try block of the render branch throws before its first suspension: the
\* error of assembleWindowMel, or the TypeError of new OffscreenCanvas(width, height)
\* for a width that is NaN ([EnforceRange] unsigned long long)
handlerThrown(r) ==
    IF r.thrown # "none" THEN r.thrown
    ELSE IF r.frames = NaN THEN "Failed to construct 'OffscreenCanvas'"
    ELSE "none"

\* variant of renderReplies: a catch block that only logs and posts nothing
renderReplies_silent(seq, r) == <<>>

\* the replies posted by the synchronous part of the render branch: the catch
\* block posts the error at once
renderReplies(seq, r) ==
    IF handlerThrown(r) # "none" THEN <<errorReply(seq, handlerThrown(r))>> ELSE <<>>

\* variant of renderAwaits: the blob is encoded and posted even after a throw
renderAwaits_alsoAfterThrow(seq, r, p) ==
    {[seq |-> seq, blob |-> ImageOf(r.mel, r.frames, p)]}

\* the handlers the synchronous part of the render branch leaves suspended at
\* `await off.convertToBlob()`, each with the blob being encoded
renderAwaits(seq, r, p) ==
    IF handlerThrown(r) # "none" THEN {}
    ELSE IF r.frames <= 0 THEN {[seq |-> seq, blob |-> PlaceholderImage]}
    ELSE {[seq |-> seq, blob |-> ImageOf(r.mel, r.frames, p)]}

\* the try block of the render branch from `const p = msg.params` to its first
\* real suspension, for the message msg with arrival number seq
renderBody(seq, msg) ==
    LET p == msg.params
        F == framesForWindow(p)
        nMissing == Len(analyzeTiles(melTileCache, msg.fileId, F.F0, F.F1, p).missing)
    IN \E failAt \in 0..nMissing :
       \E r \in {assembleWindowMel(melTileCache, pcmStore, msg.fileId, p, failAt, center)} :
            /\ melTileCache' = r.cache
            /\ replies' = replies \o renderReplies(seq, r)
            /\ awaiting' = awaiting \cup renderAwaits(seq, r, p)
            /\ log' = Append(log,
                   [LogEntry(seq, msg) EXCEPT
                       !.loaded = pcmStore[msg.fileId] # NoEntry,
                       !.needed = r.needed, !.missing = r.missing, !.calls = r.calls,
                       !.thrown = handlerThrown(r), !.mel = r.mel, !.frames = r.frames])

\* msg.type === 'render', up to the first suspension of the handler
HandleRender ==
    /\ inbox # <<>>
    /\ inbox[1].type = "render"
    /\ inbox' = Tail(inbox)
    /\ wasmReady' = TRUE
    /\ renderBody(HeadSeq, inbox[1])
    /\ UNCHANGED <<sent, pcmStore, center, caller,
                 tiling, raster, keying, viewport, micro>>

\* the promise of off.convertToBlob() resolves and the handler posts the image
BlobDone(h) ==
    /\ h \in awaiting
    /\ awaiting' = awaiting \ {h}
    /\ replies' = Append(replies, imageReply(h.seq, h.blob))
    /\ UNCHANGED <<inbox, sent, wasmReady, pcmStore, melTileCache, log, center, caller,
                 tiling, raster, keying, viewport, micro>>

----------------------------------------------------------------------------
(* The caller: SpectrogramProvider and SpectrogramGraphics *)

\* settings.windowDuration of SettingsContext
windowDuration == 15

\* viewport starts the user scrolls to
StartTimes == {0, 16}

\* the decoded samples of the file behind a src
AudioOf(f) == IF f = "f1" THEN [id |-> 1, len |-> 983040] ELSE [id |-> 2, len |-> 163840]

\* the sample rate read from the header of a file
HeaderRate(f) == 16384

\* the params object of the render effect
CallerParams(c) ==
    RenderParams([Only(AnalysisParams) EXCEPT !.sampleRate = c.sampleRate],
                 c.display, c.startTime, windowDuration)

\* the messages the three effects of SpectrogramGraphics post after a commit that
\* takes the component from state old to state new, in the order of the effects:
\* init on mount, set_pcm when audioSamples, sampleRate or fileId changed, render
\* when one of its dependencies (fileId is not among them) changed
effects(old, new) ==
    LET first == ~old.mounted
        pcmDeps == <<new.audioSamples, new.sampleRate, new.fileId>>
                     # <<old.audioSamples, old.sampleRate, old.fileId>>
        renderDeps == <<new.audioSamples, new.sampleRate, new.startTime, new.display>>
                        # <<old.audioSamples, old.sampleRate, old.startTime, old.display>>
    IN (IF first THEN <<InitMsg>> ELSE <<>>)
       \o (IF (first \/ pcmDeps) /\ new.audioSamples # NoEntry /\ new.fileId # ""
           THEN <<[type |-> "set_pcm", fileId |-> new.fileId,
                   sampleRate |-> new.sampleRate, pcm |-> new.audioSamples]>>
           ELSE <<>>)
       \o (IF (first \/ renderDeps) /\ new.fileId # ""
           THEN <<RenderMsg(new.fileId, CallerParams(new))>>
           ELSE <<>>)

\* number of messages after which the components commit no further change
MaxCallerMsgs == 5

\* a commit of the component tree followed by its effects
Commit(new) ==
    /\ Len(sent) < MaxCallerMsgs
    /\ caller' = new
    /\ sent' = sent \o effects(caller, new)
    /\ inbox' = inbox \o effects(caller, new)
    /\ UNCHANGED <<wasmReady, pcmStore, melTileCache, awaiting, replies, log, center,
                 tiling, raster, keying, viewport, micro>>

\* SpectrogramPlayer is mounted for file f: the fetch of its src starts
Mount(f) ==
    /\ ~caller.mounted
    /\ ~caller.terminated
    /\ Commit([caller EXCEPT !.mounted = TRUE, !.fileId = f, !.loading = {f}])

\* fetchAudioData of a src in flight completes: setAudioSamples, setSampleRate
AudioDecoded(f) ==
    /\ caller.mounted
    /\ f \in caller.loading
    /\ Commit([caller EXCEPT !.audioSamples = AudioOf(f), !.sampleRate = HeaderRate(f),
                             !.loading = caller.loading \ {f}])

\* setStartTime / scroll
SetStartTime(t) ==
    /\ caller.mounted
    /\ t # caller.startTime
    /\ Commit([caller EXCEPT !.startTime = t])

\* the display settings are edited in SettingsModal
EditDisplay(dp) ==
    /\ caller.mounted
    /\ dp # caller.display
    /\ Commit([caller EXCEPT !.display = dp])

\* the props fileId and src change to another file: the fetch of the new src starts
ChangeFile(f) ==
    /\ caller.mounted
    /\ f # caller.fileId
    /\ Commit([caller EXCEPT !.fileId = f, !.loading = caller.loading \cup {f}])


\* variant of Deliver: the previous object URL is not revoked
Deliver_keepsPrevious ==
    /\ caller.mounted
    /\ caller.delivered < Len(replies)
    /\ LET msg == replies[caller.delivered + 1]
           url == caller.created + 1
       IN caller' = IF msg.type = "image" /\ msg.blob # NoEntry
                    THEN [caller EXCEPT !.delivered = @ + 1, !.created = url,
                                        !.urls = caller.urls \cup {url},
                                        !.lastObjectUrl = url, !.dataURL = url,
                                        !.shown = msg.seq]
                    ELSE [caller EXCEPT !.delivered = @ + 1]
    /\ UNCHANGED <<inbox, sent, wasmReady, pcmStore, melTileCache, awaiting, replies, log,
                   center, tiling, raster, keying, viewport, micro>>

\* worker.onmessage: the next reply of the worker is handed to the caller
Deliver ==
    /\ caller.mounted
    /\ caller.delivered < Len(replies)
    /\ LET msg == replies[caller.delivered + 1]
           url == caller.created + 1
       IN caller' = IF msg.type = "image" /\ msg.blob # NoEntry
                    THEN [caller EXCEPT !.delivered = @ + 1, !.created = url,
                                        !.urls = (caller.urls \ {caller.lastObjectUrl})
                                                   \cup {url},
                                        !.lastObjectUrl = url, !.dataURL = url,
                                        !.shown = msg.seq]
                    ELSE [caller EXCEPT !.delivered = @ + 1]
    /\ UNCHANGED <<inbox, sent, wasmReady, pcmStore, melTileCache, awaiting, replies, log,
                   center, tiling, raster, keying, viewport, micro>>

\* SpectrogramGraphics unmounts: the cleanup of the init effect revokes the last
\* object URL and terminates the worker, which discards the messages and handlers
\* the worker still holds and the replies not yet handed to onmessage
Unmount ==
    /\ caller.mounted
    /\ caller' = [caller EXCEPT !.mounted = FALSE, !.terminated = TRUE,
                                !.urls = caller.urls \ {caller.lastObjectUrl},
                                !.lastObjectUrl = 0, !.delivered = Len(replies)]
    /\ inbox' = <<>>
    /\ awaiting' = {}
    /\ UNCHANGED <<sent, wasmReady, pcmStore, melTileCache, replies, log, center,
                   tiling, raster, keying, viewport, micro>>
CallerNext ==
    \/ \E f \in FileIds : Mount(f)
    \/ \E f \in FileIds : AudioDecoded(f)
    \/ \E t \in StartTimes : SetStartTime(t)
    \/ \E dp \in DisplayParams : EditDisplay(dp)
    \/ \E f \in FileIds : ChangeFile(f)
    \/ Deliver
    \/ Unmount
    \/ HandleInit
    \/ HandleSetPcm
    \/ HandleRender
    \/ \E h \in awaiting : BlobDone(h)

\* the worker with the caller the components implement
CallerSpec == Init /\ [][CallerNext]_vars

\* the worker with a caller that posts messages of M
NextOver(M) ==
    \/ \E m \in M : Post(m)
    \/ HandleInit
    \/ HandleSetPcm
    \/ HandleRender
    \/ \E h \in awaiting : BlobDone(h)

Next == NextOver(Msgs)

Spec == Init /\ [][Next]_vars

\* a step of the event loop that dispatches the message at the head of the inbox
\* (whichever handler it starts), and a step in which a blob promise settles
DispatchStep == inbox # <<>> /\ inbox' = Tail(inbox)
SettleStep == \E h \in awaiting : awaiting' = awaiting \ {h}

\* The event loop dispatches every queued message and every convertToBlob promise
\* settles; the caller may stop posting at any time.  The steps of Next that change
\* inbox by DispatchStep are exactly those of HandleInit, HandleSetPcm and
\* HandleRender, the steps that change awaiting by SettleStep exactly those of BlobDone.
Fairness == WF_inbox(DispatchStep) /\ WF_awaiting(SettleStep)

\* the fair worker, with the caller of PlainMsgs
FairSpec == Init /\ [][NextOver(PlainMsgs)]_vars /\ Fairness

\* windows that overlap at starts one tile apart (t0 = 0, 16) and a quarter of a
\* tile apart (t0 = 4)
OffsetWindows == Windows \cup { <<4, 20>> }

\* the messages of a caller that loads one file and scrolls through it
OffsetMsgs ==
    {InitMsg, SetPcmMsg("f1", [id |-> 1, len |-> 983040])}
    \cup { RenderMsg("f1", RenderParams(ap, DefaultDisplay, w[1], w[2])) :
             ap \in AnalysisParams, w \in OffsetWindows }

\* the worker with the scrolling caller
OffsetSpec == Init /\ [][NextOver(OffsetMsgs)]_vars

\* a file sampled at 32000 Hz analysed with hop_length 256: 125 frames per second
ExampleParams ==
    [sampleRate |-> 32000, n_fft |-> 2048, win_length |-> 1024, hop_length |-> 256,
     f_min |-> 10, f_max |-> 8000, n_mels |-> 64, top_db |-> 80]

\* 10 s of audio at 32000 Hz
ExampleAudio == [id |-> 3, len |-> 320000]

\* windows of 8 s at t0 = 0 and t0 = 8, and a window of no duration
ExampleWindows == { <<0, 8>>, <<8, 8>>, <<0, 0>> }

ExampleMsgs ==
    {InitMsg, [SetPcmMsg("f1", ExampleAudio) EXCEPT !.sampleRate = 32000]}
    \cup { RenderMsg("f1", RenderParams(ExampleParams, DefaultDisplay, w[1], w[2])) :
             w \in ExampleWindows }

\* the worker with the caller of the 125 frames per second example
ExampleSpec == Init /\ [][NextOver(ExampleMsgs)]_vars

\* the analysis settings with hop_length edited to 0
InvalidParams == { [ap EXCEPT !.hop_length = 0] : ap \in AnalysisParams }

\* the analysis parameters p are invalid: n_fft, hop_length or n_mels not positive,
\* or f_min >= f_max
IsInvalid(p) ==
    p.n_fft <= 0 \/ p.hop_length <= 0 \/ p.n_mels <= 0 \/ p.f_min >= p.f_max

\* the messages of a caller that loads one file and renders its first 20 s with
\* the settings of SettingsContext or with hop_length = 0
InvalidMsgs ==
    {InitMsg, SetPcmMsg("f1", [id |-> 1, len |-> 983040])}
    \cup { RenderMsg("f1", RenderParams(ap, DefaultDisplay, 0, 20)) :
             ap \in AnalysisParams \cup InvalidParams }

\* the worker with the caller that edits hop_length to 0
InvalidSpec == Init /\ [][NextOver(InvalidMsgs)]_vars

----------------------------------------------------------------------------
(* Vocabulary of the properties *)

\* positions in replies of the replies to the message with arrival number s
RepliesOf(s) == { i \in 1..Len(replies) : replies[i].seq = s }

\* arrival numbers of the render handlers suspended at convertToBlob
AwaitingSeqs == { h.seq : h \in awaiting }

\* the handler of message s has run to its end
Finished(s) == s <= Len(log) /\ s \notin AwaitingSeqs

\* this step dispatches a message
Dispatches == Len(log') = Len(log) + 1

----------------------------------------------------------------------------
(* C1 - C5: the request channel *)

\* C1: the replies to render messages are posted in the order in which the render
\* messages arrived: no reply to an earlier render follows the reply to a later one.
C1_RepliesInRequestOrder ==
    \A i, j \in 1..Len(replies) : i < j => replies[i].seq < replies[j].seq

\* C2: while a render is between the start of its handler and the posting of its
\* reply, the handler of no other message starts.
C2_OneMessageAtATime ==
    [][Dispatches => awaiting = {}]_vars

\* C3: every render message produces exactly one reply, an image or an error, and
\* init and set_pcm messages produce none: no reply before the handler has run, none
\* while it is suspended, exactly one once it has finished.
C3_ExactlyOneReply ==
    \A s \in 1..Len(sent) :
        LET n == Cardinality(RepliesOf(s))
        IN IF sent[s].type = "render"
           THEN /\ n = (IF Finished(s) THEN 1 ELSE 0)
                /\ \A i \in RepliesOf(s) : replies[i].type \in {"image", "error"}
           ELSE n = 0

C3_Witness ==
    \E s, t, u \in 1..Len(sent) :
        /\ sent[s].type = "render" /\ Finished(s)
        /\ \E i \in RepliesOf(s) : replies[i].type = "image"
        /\ sent[t].type = "render" /\ Finished(t)
        /\ \E i \in RepliesOf(t) : replies[i].type = "error"
        /\ sent[u].type = "set_pcm" /\ Finished(u)

\* C4: a render whose call of the spectral primitive fails ends with an error reply,
\* and every render message delivered after it is still processed and eventually
\* gets its own reply.
C4_FailureDoesNotHang ==
    /\ [](\A e \in 1..Len(log) :
            log[e].thrown = "primitive failure" =>
                \E i \in RepliesOf(e) : replies[i].type = "error" /\ replies[i].error = log[e].thrown)
    /\ \A s \in 1..MaxMsgs :
          (/\ s <= Len(sent)
           /\ sent[s].type = "render"
           /\ \E e \in 1..Len(log) : e < s /\ log[e].thrown = "primitive failure")
          ~> (RepliesOf(s) # {})

C4_Witness ==
    \E e, s \in 1..Len(log) :
        /\ e < s
        /\ log[e].thrown = "primitive failure"
        /\ \E i \in RepliesOf(e) : replies[i].type = "error"
        /\ log[s].type = "render"
        /\ \E i \in RepliesOf(s) : replies[i].type = "image"

\* C5: a render for a fileId with no stored PCM ends with the error reply
\* 'PCM not loaded for fileId', never with an image, whatever the cache holds, and
\* changes neither the tile cache nor the sample store.
C5_NotLoadedIsError ==
    /\ [](\A i \in 1..Len(replies) :
            replies[i].type = "image" => log[replies[i].seq].loaded)
    /\ [][(/\ Dispatches
           /\ log'[Len(log')].type = "render"
           /\ pcmStore[log'[Len(log')].fileId] = NoEntry)
          => (/\ replies' = Append(replies,
                     errorReply(Len(log'), "PCM not loaded for fileId"))
              /\ awaiting' = awaiting
              /\ melTileCache' = melTileCache
              /\ pcmStore' = pcmStore)]_vars

C5_Witness ==
    \E j, i \in 1..Len(log) :
        /\ j < i
        /\ log[j].type = "render" /\ log[j].thrown = "none"
        /\ log[i].type = "render" /\ ~log[i].loaded
        /\ DOMAIN melTileCache # {}
        /\ \E k \in RepliesOf(i) : replies[k].type = "error"

----------------------------------------------------------------------------
(* C6 - C10: the window assembler and the tile cache *)

\* the record of the handler this step starts
Started == log'[Len(log')]

\* one call of the primitive over the whole frame range of the window, with the
\* padding discarded as computeSegmentAndPopulateTiles discards it
untiledReference(pcmEntry, p, centered) ==
    LET F == framesForWindow(p)
        seg == [startFrame |-> F.F0, frames |-> F.F1 - F.F0 + 1]
        melFrames == mel_spectrogram_db(p, segmentSlice(pcmEntry.pcm, seg, p), centered)
        framesPerPad == p.n_fft \div p.hop_length
    IN flattenMel(sliceFrames(melFrames, framesPerPad, framesPerPad + seg.frames), p.n_mels)

\* C6: the buffer assembleWindowMel returns equals, frame for frame, the result of
\* one call of the primitive over the whole un-tiled range [F0, F1], whatever tiles
\* earlier renders left in the cache.
C6_TiledEqualsUntiled ==
    \A i \in 1..Len(log) :
        (/\ i = Len(log)
         /\ log[i].type = "render"
         /\ log[i].thrown = "none")
        => log[i].mel = untiledReference(pcmStore[log[i].fileId], log[i].params, center)

\* the needed tiles of the window that are not in the cache
Uncached(cache, fileId, p, needed) ==
    { i \in 1..Len(needed) :
        tileKey(fileId, needed[i].startFrame, needed[i].frames, p) \notin DOMAIN cache }

\* first tiles of the maximal runs of adjacent uncached needed tiles
RunStarts(cache, fileId, p, needed) ==
    LET U == Uncached(cache, fileId, p, needed)
    IN { i \in U : i - 1 \notin U }

\* last tile of the run that starts at tile i
RunEnd(cache, fileId, p, needed, i) ==
    LET U == Uncached(cache, fileId, p, needed)
    IN CHOOSE j \in i..Len(needed) : (\A k \in i..j : k \in U) /\ (j + 1 \notin U)

\* C7 as stated: during one render the primitive is invoked exactly once per maximal
\* run of adjacent uncached needed tiles.
C7_OneCallPerRun ==
    [][(Dispatches /\ Started.type = "render")
       => Started.calls =
            Cardinality(RunStarts(melTileCache, Started.fileId, Started.params, Started.needed))]_vars

\* C7 as amended: the segments handed to the primitive are exactly the maximal runs
\* of adjacent uncached needed tiles, in order; a render whose assembly completes
\* invokes the primitive once per run, and a render that fails (no PCM stored, or a
\* call raising) has invoked it for a proper or full prefix of the runs only.
C7_OneCallPerRunUntilFailure ==
    [][(Dispatches /\ Started.type = "render")
       => LET r == Started
              starts == RunStarts(melTileCache, r.fileId, r.params, r.needed)
          IN /\ Len(r.missing) = Cardinality(starts)
             /\ \A k \in 1..Len(r.missing) :
                  \E i \in starts :
                     /\ Cardinality({ h \in starts : h < i }) = k - 1
                     /\ r.missing[k].startFrame = r.needed[i].startFrame
                     /\ r.missing[k].startFrame + r.missing[k].frames =
                          LET j == RunEnd(melTileCache, r.fileId, r.params, r.needed, i)
                          IN r.needed[j].startFrame + r.needed[j].frames
             /\ r.calls <= Len(r.missing)
             /\ r.thrown = "none" => r.calls = Len(r.missing)]_vars

C7_Witness ==
    \E i, j \in 1..Len(log) :
        /\ log[i].type = "render" /\ log[i].thrown = "none"
        /\ Len(log[i].needed) = 2 /\ log[i].calls = 1
        /\ log[j].type = "render" /\ log[j].thrown = "none"
        /\ Len(log[j].needed) = 3 /\ log[j].calls = 2

\* the two renders ask for the same window of the same file with the same analysis
SameRequest(a, b) ==
    /\ a.type = "render" /\ b.type = "render"
    /\ a.fileId = b.fileId
    /\ AnalysisOf(a.params) = AnalysisOf(b.params)
    /\ a.params.t0 = b.params.t0
    /\ a.params.windowDuration = b.params.windowDuration

C9_DisplayNotInKey ==
    [][(/\ Dispatches
        /\ \E i \in 1..Len(log) :
              /\ SameRequest(log[i], Started)
              /\ log[i].thrown = "none"
              /\ DisplayOf(log[i].params) # DisplayOf(Started.params))
       => (/\ Started.calls = 0
           /\ Started.thrown = "none"
           /\ DOMAIN melTileCache' = DOMAIN melTileCache)]_vars

C9_Witness ==
    \E i, j \in 1..Len(log) :
        /\ i < j
        /\ SameRequest(log[i], log[j])
        /\ DisplayOf(log[i].params) # DisplayOf(log[j].params)
        /\ log[i].thrown = "none" /\ log[i].calls > 0
        /\ log[j].thrown = "none" /\ log[j].calls = 0

\* C10: the tile cache only grows: no step removes a key or changes the value
\* stored under an existing key.
C10_CacheGrowOnly ==
    [][\A k \in DOMAIN melTileCache :
          k \in DOMAIN melTileCache' /\ melTileCache'[k] = melTileCache[k]]_vars

C10_Witness ==
    \E i, j \in 1..Len(log) :
        /\ i < j
        /\ log[i].type = "render" /\ log[i].thrown = "none" /\ log[i].calls > 0
        /\ log[j].type = "render" /\ log[j].thrown = "none" /\ log[j].calls > 0
        /\ log[j].fileId = log[i].fileId
        /\ Len(log[j].needed) > 1
        /\ Len(log[j].missing) = 1 /\ log[j].missing[1].frames < log[j].frames
        /\ Cardinality(DOMAIN melTileCache) >= 4

----------------------------------------------------------------------------
(* C11 - C15: boundaries and failures of the window assembler *)

\* number of frames a flattened mel buffer holds (its length divided by n_mels)
RECURSIVE BufFrames(_)
BufFrames(buf) == IF buf = <<>> THEN 0 ELSE buf[1].n + BufFrames(Tail(buf))

\* the window of the render starts at or after the end of the PCM stored for its file
PastEnd(e, store) ==
    /\ store[e.fileId] # NoEntry
    /\ e.params.t0 * e.params.sampleRate >= store[e.fileId].pcm.len

\* C11: a render whose t0 lies beyond the end of the loaded audio ends with the
\* 1x1 placeholder image: it posts no error and leaves no full-size image to be
\* encoded (a render during which the primitive itself raises set aside).
C11_PastEndIsPlaceholder ==
    [][(/\ Dispatches
        /\ Started.type = "render"
        /\ PastEnd(Started, pcmStore)
        /\ Started.thrown # "primitive failure")
       => (/\ replies' = replies
           /\ awaiting' = awaiting \cup {[seq |-> Started.seq, blob |-> PlaceholderImage]})]_vars

\* the frame range of cache key k lies inside segment seg
KeyInside(k, seg) ==
    k[2] >= seg.startFrame /\ k[2] + k[3] <= seg.startFrame + seg.frames

\* C12: when the call of the primitive for a missing segment fails, the render posts
\* its error reply and the cache has gained no key whose frame range lies inside the
\* failed segment; the segments computed before the failure stay committed.
C12_FailedSegmentNotCommitted ==
    [][(/\ Dispatches
        /\ Started.type = "render"
        /\ Started.thrown = "primitive failure")
       => LET seg == Started.missing[Started.calls]
          IN /\ replies' = Append(replies, errorReply(Started.seq, "primitive failure"))
             /\ \A k \in DOMAIN melTileCache' :
                   KeyInside(k, seg) => k \in DOMAIN melTileCache]_vars

C12_Witness ==
    \E i \in 1..Len(log) :
        /\ log[i].type = "render"
        /\ log[i].thrown = "primitive failure"
        /\ log[i].calls = 2
        /\ \E k \in RepliesOf(i) : replies[k].type = "error"
        /\ tileKey(log[i].fileId, log[i].missing[1].startFrame, TILE_FRAMES, log[i].params)
             \in DOMAIN melTileCache
        /\ tileKey(log[i].fileId, log[i].missing[2].startFrame, log[i].missing[2].frames,
                   log[i].params) \notin DOMAIN melTileCache

\* C14: every window assembly that completes returns frames = totalFrames and a
\* buffer of exactly totalFrames x n_mels values.  Stated for the centred framing
\* of the primitive, the convention that returns the most frames per slice, so that
\* a shortfall does not depend on the convention.
C14_BufferIsTotalFrames ==
    center =>
      \A i \in 1..Len(log) :
        (log[i].type = "render" /\ log[i].thrown = "none")
        => /\ log[i].frames =
                Max(1, (log[i].params.windowDuration * log[i].params.sampleRate)
                          \div log[i].params.hop_length)
           /\ BufFrames(log[i].mel) = log[i].frames

\* C15: every cache entry stored under a key with frame count c holds exactly
\* c x n_mels values.  Stated for the centred framing of the primitive, as C14.
C15_TileHoldsItsFrameCount ==
    center => \A k \in DOMAIN melTileCache : BufFrames(melTileCache[k]) = k[3]

----------------------------------------------------------------------------
(* C17: the sample store *)

\* C17: handling set_pcm for a fileId stores the message's sampleRate and samples
\* as that fileId's entry, whatever was stored before, and leaves the entries of
\* all other fileIds and the whole tile cache as they were.
C17_SetPcmReplacesOnlyItsEntry ==
    [][(Dispatches /\ Started.type = "set_pcm")
       => LET m == inbox[1]
          IN /\ pcmStore'[m.fileId] = [sampleRate |-> m.sampleRate, pcm |-> m.pcm]
             /\ \A g \in FileIds \ {m.fileId} : pcmStore'[g] = pcmStore[g]
             /\ melTileCache' = melTileCache]_vars

C17_Witness ==
    \E i, j, k \in 1..Len(log) :
        /\ i < j /\ j < k
        /\ log[i].type = "set_pcm" /\ log[k].type = "set_pcm"
        /\ log[i].fileId = log[k].fileId
        /\ sent[i].pcm # sent[k].pcm
        /\ log[j].type = "render" /\ log[j].fileId = log[i].fileId /\ log[j].thrown = "none"
        /\ pcmStore[log[k].fileId].pcm = sent[k].pcm
        /\ DOMAIN melTileCache # {}

----------------------------------------------------------------------------
(* C18 - C20: frame ranges and cache keys of overlapping windows *)

\* the cache keys of the needed tiles of a dispatched render
NeededKeys(e) ==
    { tileKey(e.fileId, e.needed[i].startFrame, e.needed[i].frames, e.params) :
        i \in 1..Len(e.needed) }

\* earlier renders of the same file with the same analysis parameters that stored
\* tiles (at least one of their calls of the primitive returned)
Peers(e) ==
    { i \in 1..Len(log) :
        /\ log[i].type = "render"
        /\ log[i].fileId = e.fileId
        /\ AnalysisOf(log[i].params) = AnalysisOf(e.params)
        /\ log[i].calls > (IF log[i].thrown = "primitive failure" THEN 1 ELSE 0) }

\* first frame F0 of the window a dispatched render asked for
StartFrame(e) == framesForWindow(e.params).F0

\* C18 as stated: a render shares no cache key with any earlier render of the same
\* file and analysis parameters whose start frame F0 differs, and finds none of its
\* needed tiles cached when every earlier such render started at a different F0.
C18_DifferentStartSharesNothing ==
    [][(Dispatches /\ Started.type = "render")
       => LET others == { i \in Peers(Started) : StartFrame(log[i]) # StartFrame(Started) }
          IN /\ \A i \in others : NeededKeys(log[i]) \cap NeededKeys(Started) = {}
             /\ others = Peers(Started)
                  => Uncached(melTileCache, Started.fileId, Started.params, Started.needed)
                       = 1..Len(Started.needed)]_vars

\* C18 as amended: the same for start frames that differ by an amount that is not a
\* multiple of TILE_FRAMES.
C18_UnalignedStartSharesNothing ==
    [][(Dispatches /\ Started.type = "render")
       => LET others == { i \in Peers(Started) :
                            (StartFrame(log[i]) - StartFrame(Started)) % TILE_FRAMES # 0 }
          IN /\ \A i \in others : NeededKeys(log[i]) \cap NeededKeys(Started) = {}
             /\ others = Peers(Started)
                  => Uncached(melTileCache, Started.fileId, Started.params, Started.needed)
                       = 1..Len(Started.needed)]_vars

C18_Witness ==
    \E i, j \in 1..Len(log) :
        /\ i < j
        /\ log[i].type = "render" /\ log[i].thrown = "none"
        /\ log[j].type = "render" /\ log[j].thrown = "none"
        /\ log[i].fileId = log[j].fileId
        /\ log[i].params.t0 = 0 /\ log[j].params.t0 = 4
        /\ log[j].calls = 1
        /\ log[j].missing = <<[startFrame |-> 256, frames |-> log[j].frames]>>
        /\ Cardinality(DOMAIN melTileCache) >= 4

\* the dispatched render asked for window <<t0, windowDuration>>
Asked(e, t0, wd) ==
    e.type = "render" /\ e.params.t0 = t0 /\ e.params.windowDuration = wd

\* C19: at 125 frames per second, with the file's PCM stored and no earlier render
\* of the file, a render of 8 s at t0 = 0 followed by a render of 8 s at t0 = 8
\* needs frames [0,999] and then [1000,1999]; the second render finds none of its
\* tiles cached, shares no key with the first and calls the primitive exactly once.
C19_SecondWindowReusesNothing ==
    [][(/\ Dispatches /\ log # <<>>
        /\ Asked(log[Len(log)], 0, 8) /\ Asked(Started, 8, 8)
        /\ Started.fileId = log[Len(log)].fileId
        /\ AnalysisOf(Started.params) = AnalysisOf(ExampleParams)
        /\ AnalysisOf(log[Len(log)].params) = AnalysisOf(ExampleParams)
        /\ pcmStore[Started.fileId] # NoEntry
        /\ \A k \in 1..(Len(log) - 1) :
              log[k].type = "render" => log[k].fileId # Started.fileId)
       => (/\ log[Len(log)].needed = <<[startFrame |-> 0, frames |-> 1000]>>
           /\ Started.needed = <<[startFrame |-> 1000, frames |-> 1000]>>
           /\ NeededKeys(log[Len(log)]) \cap NeededKeys(Started) = {}
           /\ NeededKeys(Started) \cap DOMAIN melTileCache = {}
           /\ Started.missing = Started.needed
           /\ Started.calls = 1)]_vars

C19_Witness ==
    \E i \in 2..Len(log) :
        /\ Asked(log[i - 1], 0, 8) /\ Asked(log[i], 8, 8)
        /\ log[i - 1].fileId = log[i].fileId
        /\ log[i - 1].thrown = "none" /\ log[i - 1].calls = 1
        /\ log[i].thrown = "none" /\ log[i].calls = 1
        /\ Cardinality(DOMAIN melTileCache) = 2

\* C20: every render asks for F0 = floor(t0 * sampleRate / hop_length) and
\* totalFrames = max(1, floor(windowDuration * sampleRate / hop_length)) >= 1 frames,
\* its needed tiles running from F0 to F1 = F0 + totalFrames - 1; at 32000 Hz with
\* hop_length 256, t0 = 0 and windowDuration = 8 give F0 = 0, F1 = 999 and the one
\* needed tile of frames 0..999, and with the file's PCM stored and nothing of it
\* cached the primitive is called exactly once.
C20_WindowToFrames ==
    [][(Dispatches /\ Started.type = "render")
       => LET p == Started.params
              n == Len(Started.needed)
              F0 == (p.t0 * p.sampleRate) \div p.hop_length
              totalFrames == Max(1, (p.windowDuration * p.sampleRate) \div p.hop_length)
          IN /\ totalFrames >= 1
             /\ Started.frames = totalFrames
             /\ n >= 1
             /\ Started.needed[1].startFrame = F0
             /\ Started.needed[n].startFrame + Started.needed[n].frames - 1
                  = F0 + totalFrames - 1
             /\ (Asked(Started, 0, 8) /\ AnalysisOf(p) = AnalysisOf(ExampleParams))
                  => /\ Started.needed = <<[startFrame |-> 0, frames |-> 1000]>>
                     /\ (/\ pcmStore[Started.fileId] # NoEntry
                         /\ NeededKeys(Started) \cap DOMAIN melTileCache = {})
                          => Started.calls = 1]_vars

C20_Witness ==
    \E i, j \in 1..Len(log) :
        /\ Asked(log[i], 0, 8)
        /\ log[i].thrown = "none" /\ log[i].calls = 1 /\ log[i].frames = 1000
        /\ log[i].needed = <<[startFrame |-> 0, frames |-> 1000]>>
        /\ Asked(log[j], 0, 0)
        /\ log[j].frames = 1

----------------------------------------------------------------------------
(* C13: invalid analysis parameters *)

\* C13: a render whose analysis parameters are invalid posts one error reply that
\* reports the invalid parameters, leaves no image to be encoded and adds no entry
\* to the tile cache.
C13_InvalidParamsIsError ==
    [][(/\ Dispatches
        /\ Started.type = "render"
        /\ IsInvalid(Started.params))
       => (/\ replies' = Append(replies, errorReply(Started.seq, "InvalidParams"))
           /\ awaiting' = awaiting
           /\ melTileCache' = melTileCache)]_vars

----------------------------------------------------------------------------
(* C16: the caller's message order *)

\* C16: every render message the caller has posted is preceded by a set_pcm message
\* with the same fileId.
C16_SetPcmBeforeRender ==
    \A i \in 1..Len(sent) :
        sent[i].type = "render"
        => \E j \in 1..(i - 1) : sent[j].type = "set_pcm" /\ sent[j].fileId = sent[i].fileId

----------------------------------------------------------------------------
(* C21: the re-sliced chunks of a segment and the final cache lookup *)

\* C21: a render whose missing segments were all computed (PCM stored, no call of
\* the primitive raising) finds every needed tile in the cache: the keys the render
\* adds to the cache are exactly the keys of its needed tiles that were uncached,
\* and the final lookup throws nothing.
C21_NeededTilesPresentAfterFill ==
    [][(/\ Dispatches
        /\ Started.type = "render"
        /\ Started.thrown \notin {"PCM not loaded for fileId", "primitive failure"})
       => LET r == Started
              U == Uncached(melTileCache, r.fileId, r.params, r.needed)
          IN /\ NeededKeys(r) \subseteq DOMAIN melTileCache'
             /\ DOMAIN melTileCache' \ DOMAIN melTileCache =
                  { tileKey(r.fileId, r.needed[i].startFrame, r.needed[i].frames, r.params) :
                      i \in U }
             /\ r.thrown = "none"]_vars

C21_Witness ==
    \E i \in 1..Len(log) :
        /\ log[i].type = "render"
        /\ log[i].thrown = "none"
        /\ log[i].calls = 1
        /\ Len(log[i].needed) = 2
        /\ log[i].needed[2].frames < TILE_FRAMES
        /\ NeededKeys(log[i]) \subseteq DOMAIN melTileCache

----------------------------------------------------------------------------
(* C28: the needed tiles of a frame range *)

\* first frames F0 and frame counts totalFrames of the ranges analyzeTiles is applied
\* to: on and off the grid of TILE_FRAMES, below, at and above whole tile counts
RangeStarts == {0, 1, 255, 256, 1023, 1024, 1025, 2047, 2048, 5000}
RangeLengths == {1, 2, 255, 1000, 1023, 1024, 1025, 1280, 2047, 2048, 2049, 3072, 3073, 4096}

\* assembleWindowMel about to call analyzeTiles(fileId, F0, F1, p) on a fresh worker
TilingInit ==
    /\ WorkerInit
    /\ raster = NoEntry
    /\ keying = NoEntry
    /\ viewport = NoEntry
    /\ \E F0 \in RangeStarts, n \in RangeLengths :
          tiling = [F0 |-> F0, F1 |-> F0 + n - 1, done |-> FALSE,
                    needed |-> <<>>, missing |-> <<>>]

\* const { needed, missing } = analyzeTiles(fileId, F0, F1, p)
AnalyzeRange ==
    /\ tiling # NoEntry
    /\ ~tiling.done
    /\ \E ap \in AnalysisParams, f \in FileIds :
         LET p == RenderParams(ap, DefaultDisplay, 0, 0)
             a == analyzeTiles(melTileCache, f, tiling.F0, tiling.F1, p)
         IN tiling' = [tiling EXCEPT !.done = TRUE, !.needed = a.needed,
                                     !.missing = a.missing]
    /\ UNCHANGED <<inbox, sent, wasmReady, pcmStore, melTileCache, awaiting, replies, log,
                   center, caller, raster, keying, viewport, micro>>

TilingSpec == TilingInit /\ [][AnalyzeRange]_vars

\* C28: for F0 <= F1 the needed tiles partition [F0, F1]: the first starts at F0,
\* each starts one frame after the previous one ends, the last ends at F1, every
\* tile but the last has width TILE_FRAMES, the last has a width in 1..TILE_FRAMES,
\* and there are ceil(totalFrames / TILE_FRAMES) of them.
C28_NeededTilesPartitionRange ==
    (tiling # NoEntry /\ tiling.done /\ tiling.F0 <= tiling.F1)
    => LET t == tiling.needed
           n == Len(t)
           totalFrames == tiling.F1 - tiling.F0 + 1
       IN /\ n = (totalFrames + TILE_FRAMES - 1) \div TILE_FRAMES
          /\ t[1].startFrame = tiling.F0
          /\ \A i \in 1..(n - 1) :
                /\ t[i].frames = TILE_FRAMES
                /\ t[i + 1].startFrame = t[i].startFrame + t[i].frames
          /\ t[n].frames \in 1..TILE_FRAMES
          /\ t[n].startFrame + t[n].frames - 1 = tiling.F1

C28_Witness ==
    /\ tiling # NoEntry
    /\ tiling.done
    /\ tiling.F0 % TILE_FRAMES # 0
    /\ Len(tiling.needed) = 3
    /\ tiling.needed[3].frames < TILE_FRAMES

----------------------------------------------------------------------------
(* C29 - C30: the padded PCM slice of a segment *)

\* C29: the k-th frame stored for a tile with start frame s is the primitive's frame
\* at sample offset (s + k) * hop_length: every stored tile is one run of frames
\* that begins at offset s * hop_length, also when the left padding of its segment
\* was clamped at sample 0.
C29_KeptFramesAreSegmentFrames ==
    \A k \in DOMAIN melTileCache :
        \A i \in 1..Len(melTileCache[k]) :
            /\ i = 1
            /\ melTileCache[k][i].off = k[2] * melTileCache[k][i].ap[4]

\* C30: for every segment handed to the primitive,
\* 0 <= startSample <= endSample <= pcm.length.
C30_SliceWithinBuffer ==
    [][(/\ Dispatches
        /\ Started.type = "render"
        /\ Started.loaded)
       => \A k \in 1..Started.calls :
            LET seg == Started.missing[k]
                pcm == pcmStore[Started.fileId].pcm
            IN /\ 0 <= startSample(seg, Started.params)
               /\ startSample(seg, Started.params) <= endSample(pcm, seg, Started.params)
               /\ endSample(pcm, seg, Started.params) <= pcm.len]_vars

----------------------------------------------------------------------------
(* Display mapper and rasterizer: lines 224-279 of the render branch *)

(* JavaScript numbers.  A number is a finite rational n/d in lowest terms, NaN,
   Infinity or -Infinity; `undefined` (a read past the end of a typed array) is a
   value of its own that every arithmetic operator converts to NaN.  The inputs
   below are chosen so that every finite intermediate value is a dyadic rational
   of few bits, which double arithmetic computes exactly; the two exceptions are
   the widening epsilon 1e-6, whose results only reach the clamp to [0,1], and
   Math.pow at the auto gammas 0.6 and 1.4, tabulated to six decimals. *)

Abs(n) == IF n < 0 THEN -n ELSE n

RECURSIVE Gcd(_, _)
Gcd(a, b) == IF b = 0 THEN a ELSE Gcd(b, a % b)

Fin(n, d) ==
    LET g == Gcd(Abs(n), d)
    IN [k |-> "fin", n |-> (IF n < 0 THEN -(Abs(n) \div g) ELSE n \div g), d |-> d \div g]

NotANumber == [k |-> "nan", n |-> 0, d |-> 1]
Infinity == [k |-> "inf", n |-> 0, d |-> 1]
NegInfinity == [k |-> "ninf", n |-> 0, d |-> 1]
undefined == [k |-> "undef", n |-> 0, d |-> 1]

\* ToNumber(undefined) is NaN
IsNaN(a) == a.k \in {"nan", "undef"}

isFinite(a) == a.k = "fin"

\* -1, 0 or 1 for a number that is not NaN
Sign(a) ==
    IF a.k = "inf" THEN 1
    ELSE IF a.k = "ninf" THEN -1
    ELSE IF a.n > 0 THEN 1 ELSE IF a.n < 0 THEN -1 ELSE 0

Signed(s) == IF s > 0 THEN Infinity ELSE NegInfinity

Negate(a) ==
    IF IsNaN(a) THEN NotANumber
    ELSE IF a.k = "inf" THEN NegInfinity
    ELSE IF a.k = "ninf" THEN Infinity
    ELSE Fin(-a.n, a.d)

\* a + b
Plus(a, b) ==
    IF IsNaN(a) \/ IsNaN(b) THEN NotANumber
    ELSE IF ~isFinite(a) /\ ~isFinite(b) THEN (IF a.k = b.k THEN a ELSE NotANumber)
    ELSE IF ~isFinite(a) THEN a
    ELSE IF ~isFinite(b) THEN b
    ELSE Fin(a.n * b.d + b.n * a.d, a.d * b.d)

\* a - b
Minus(a, b) == Plus(a, Negate(b))

\* a * b
Times(a, b) ==
    IF IsNaN(a) \/ IsNaN(b) THEN NotANumber
    ELSE IF ~isFinite(a) \/ ~isFinite(b)
         THEN (IF Sign(a) * Sign(b) = 0 THEN NotANumber ELSE Signed(Sign(a) * Sign(b)))
    ELSE Fin(a.n * b.n, a.d * b.d)

\* a / b (a zero divisor is +0)
Divide(a, b) ==
    IF IsNaN(a) \/ IsNaN(b) THEN NotANumber
    ELSE IF ~isFinite(a) /\ ~isFinite(b) THEN NotANumber
    ELSE IF ~isFinite(a) THEN Signed(Sign(a) * (IF Sign(b) < 0 THEN -1 ELSE 1))
    ELSE IF ~isFinite(b) THEN Fin(0, 1)
    ELSE IF b.n = 0 THEN (IF a.n = 0 THEN NotANumber ELSE Signed(Sign(a)))
    ELSE Fin(Sign(b) * a.n * b.d, a.d * Abs(b.n))

\* a < b and a > b: false when either operand is NaN
LessThan(a, b) ==
    /\ ~IsNaN(a) /\ ~IsNaN(b)
    /\ IF isFinite(a) /\ isFinite(b) THEN a.n * b.d < b.n * a.d
       ELSE (IF isFinite(a) THEN 0 ELSE Sign(a)) < (IF isFinite(b) THEN 0 ELSE Sign(b))

GreaterThan(a, b) == LessThan(b, a)

\* Math.min(a, b) and Math.max(a, b): NaN when either operand is NaN
MathMin(a, b) ==
    IF IsNaN(a) \/ IsNaN(b) THEN NotANumber ELSE IF LessThan(b, a) THEN b ELSE a

MathMax(a, b) ==
    IF IsNaN(a) \/ IsNaN(b) THEN NotANumber ELSE IF GreaterThan(b, a) THEN b ELSE a

\* Math.pow(x, g) for a base x in [0,1]; the irrational powers of 1/2 to six decimals
MathPow(x, g) ==
    CASE IsNaN(g) -> NotANumber
      [] ~IsNaN(g) /\ g = Fin(0, 1) -> Fin(1, 1)
      [] ~IsNaN(g) /\ g # Fin(0, 1) /\ IsNaN(x) -> NotANumber
      [] isFinite(g) /\ g # Fin(0, 1) /\ x = Fin(0, 1) ->
            IF Sign(g) > 0 THEN Fin(0, 1) ELSE Infinity
      [] isFinite(g) /\ g # Fin(0, 1) /\ x = Fin(1, 1) -> Fin(1, 1)
      [] g = Fin(1, 1) /\ isFinite(x) /\ x \notin {Fin(0, 1), Fin(1, 1)} -> x
      [] g = Fin(2, 1) /\ isFinite(x) /\ x \notin {Fin(0, 1), Fin(1, 1)} -> Times(x, x)
      [] g = Fin(3, 5) /\ x = Fin(1, 2) -> Fin(659754, 1000000)
      [] g = Fin(7, 5) /\ x = Fin(1, 2) -> Fin(378929, 1000000)

\* x | 0: ToInt32, truncation toward zero, 0 for NaN and the infinities (the
\* operand is clampedValue * 255, far inside the 32-bit range where nothing wraps)
ToInt32(x) ==
    IF ~isFinite(x) THEN 0
    ELSE IF x.n < 0 THEN -(Abs(x.n) \div x.d) ELSE x.n \div x.d

\* Array.from(mel).filter(Number.isFinite)
filterFinite(mel) == SelectSeq(mel, isFinite)

\* .sort((a, b) => a - b): the ascending arrangement of the values of s; its k-th
\* element is the value with fewer than k smaller elements and at least k elements
\* not greater
sortAscending(s) ==
    [k \in 1..Len(s) |->
        CHOOSE x \in { s[i] : i \in 1..Len(s) } :
            /\ Cardinality({ i \in 1..Len(s) : LessThan(s[i], x) }) < k
            /\ Cardinality({ i \in 1..Len(s) : ~LessThan(x, s[i]) }) >= k]

sortedFinite(mel) == sortAscending(filterFinite(mel))

\* the loop `for (let i = 0; i < mel.length; i++)`: the least and the greatest of
\* the finite values, Infinity and -Infinity when there is none
minMax(mel) ==
    LET F == { mel[i] : i \in { n \in 1..Len(mel) : isFinite(mel[n]) } }
    IN [smin |-> IF F = {} THEN Infinity
                 ELSE CHOOSE x \in F : \A y \in F : ~LessThan(y, x),
        smax |-> IF F = {} THEN NegInfinity
                 ELSE CHOOSE x \in F : \A y \in F : ~GreaterThan(y, x)]

\* 1e-6
Epsilon == Fin(1, 1000000)

\* Math.floor(0.05 * sorted.length)
idxLow(n) == (5 * n) \div 100

\* Math.floor((p.gainPercentile / 100) * sorted.length); NaN for a NaN percentile
idxHigh(gainPercentile, n) ==
    IF gainPercentile = NaN THEN NaN ELSE (gainPercentile * n) \div 100

\* variant of normalizationBounds: a degenerate range is left as it is
normalizationBounds_noWidening(mel, p) ==
    LET sorted == sortedFinite(mel)
        n == Len(sorted)
        plain == minMax(mel)
        high == idxHigh(p.gainPercentile, n)
    IN IF p.dynamicGain /\ n > 0
       THEN [smin |-> sorted[Min(idxLow(n), n - 1) + 1],
             smax |-> IF high = NaN THEN undefined ELSE sorted[Min(high, n - 1) + 1]]
       ELSE plain

\* smin and smax: lines 225-246
normalizationBounds(mel, p) ==
    LET sorted == sortedFinite(mel)
        n == Len(sorted)
        plain == minMax(mel)
        high == idxHigh(p.gainPercentile, n)
        \* sorted[NaN] is undefined
        gained == IF p.dynamicGain /\ n > 0
                  THEN [smin |-> sorted[Min(idxLow(n), n - 1) + 1],
                        smax |-> IF high = NaN THEN undefined
                                 ELSE sorted[Min(high, n - 1) + 1]]
                  ELSE plain
    IN IF ~GreaterThan(gained.smax, gained.smin)
       THEN [gained EXCEPT !.smax = Plus(gained.smin, Epsilon)]
       ELSE gained

\* variant of gammaFor: the two automatic gammas are exchanged
gammaFor_swapped(mel, p, smin, smax) ==
    IF p.autoGamma
    THEN LET sorted == sortedFinite(mel)
             mid == IF Len(sorted) > 0 THEN sorted[(Len(sorted) \div 2) + 1] ELSE Fin(0, 1)
             normalizedMedian == Divide(Minus(mid, smin), Minus(smax, smin))
         IN IF LessThan(normalizedMedian, Fin(3, 10)) THEN Fin(7, 5)
            ELSE IF GreaterThan(normalizedMedian, Fin(7, 10)) THEN Fin(3, 5)
            ELSE Fin(1, 1)
    ELSE p.gammaValue

\* gamma: lines 247-254
gammaFor(mel, p, smin, smax) ==
    IF p.autoGamma
    THEN LET sorted == sortedFinite(mel)
             mid == IF Len(sorted) > 0 THEN sorted[(Len(sorted) \div 2) + 1] ELSE Fin(0, 1)
             normalizedMedian == Divide(Minus(mid, smin), Minus(smax, smin))
         IN IF LessThan(normalizedMedian, Fin(3, 10)) THEN Fin(3, 5)
            ELSE IF GreaterThan(normalizedMedian, Fin(7, 10)) THEN Fin(7, 5)
            ELSE Fin(1, 1)
    ELSE p.gammaValue

\* mel[i]: undefined past the end of the typed array
melAt(mel, i) == IF i < Len(mel) THEN mel[i + 1] ELSE undefined


\* variant of pixelFor: the colour index is Math.round(clampedValue * 255)
pixelFor_rounded(mel, width, height, p, smin, smax, gamma, i, j) ==
    LET v == melAt(mel, i * height + j)
        raw == Divide(Minus(v, smin), Minus(smax, smin))
        finite == IF ~isFinite(raw) THEN Fin(0, 1) ELSE raw
        normalizedValue == MathMax(Fin(0, 1), MathMin(Fin(1, 1), finite))
        gammaAdjusted == MathPow(normalizedValue, gamma)
        adjustedValue == Plus(Plus(Times(Minus(gammaAdjusted, Fin(1, 2)), p.contrast),
                                   Fin(1, 2)), p.brightness)
        clampedValue == MathMax(Fin(0, 1), MathMin(Fin(1, 1), adjustedValue))
        num == ToInt32(Plus(Times(clampedValue, Fin(255, 1)), Fin(1, 2)))
    IN [o |-> (height - 1 - j) * width + i,
        px |-> [read |-> i * height + j, v |-> v, clampedValue |-> clampedValue,
                num |-> num, alpha |-> 255]]
\* the body of the inner rasterize loop for frame i and mel bin j: the pixel it
\* writes at offset o / 4, with the locals the claims are about
pixelFor(mel, width, height, p, smin, smax, gamma, i, j) ==
    LET v == melAt(mel, i * height + j)
        raw == Divide(Minus(v, smin), Minus(smax, smin))
        finite == IF ~isFinite(raw) THEN Fin(0, 1) ELSE raw
        normalizedValue == MathMax(Fin(0, 1), MathMin(Fin(1, 1), finite))
        gammaAdjusted == MathPow(normalizedValue, gamma)
        adjustedValue == Plus(Plus(Times(Minus(gammaAdjusted, Fin(1, 2)), p.contrast),
                                   Fin(1, 2)), p.brightness)
        clampedValue == MathMax(Fin(0, 1), MathMin(Fin(1, 1), adjustedValue))
        num == ToInt32(Times(clampedValue, Fin(255, 1)))
    IN [o |-> (height - 1 - j) * width + i,
        px |-> [read |-> i * height + j, v |-> v, clampedValue |-> clampedValue,
                num |-> num, alpha |-> 255]]

\* the loops `for (let j = height - 1; ...) for (let i = width - 1; ...)`: iteration
\* number k (from 1) has j = height - 1 - (k - 1) div width and
\* i = width - 1 - (k - 1) mod width; data maps a pixel offset to the sequence of
\* the writes made to it, in the order of the iterations
rasterize(data, mel, width, height, p, smin, smax, gamma) ==
    LET visits == [k \in 1..(width * height) |->
                      pixelFor(mel, width, height, p, smin, smax, gamma,
                               width - 1 - ((k - 1) % width),
                               height - 1 - ((k - 1) \div width))]
        hits(o) == SelectSeq(visits, LAMBDA w : w.o = o)
    IN [o \in DOMAIN data |-> data[o] \o [n \in 1..Len(hits(o)) |-> hits(o)[n].px]]

\* decibel values of the mel buffers handed to the display mapper
dB(x) == Fin(x, 1)

\* the { mel, frames } results of assembleWindowMel that are mapped, with
\* height = n_mels: buffers of finite values, with NaN and infinities, constant,
\* without any finite value, of one value, of twenty values, and a buffer that holds
\* fewer than frames x n_mels values (a window that runs past the end of the audio)
MelImages ==
    { [width |-> 3, height |-> 2, mel |-> <<dB(-64), dB(-32), dB(0), dB(-32), dB(-64), dB(0)>>],
      [width |-> 2, height |-> 3,
       mel |-> <<NotANumber, dB(-64), Infinity, dB(0), NegInfinity, dB(-32)>>],
      [width |-> 2, height |-> 2, mel |-> <<dB(-32), dB(-32), dB(-32), dB(-32)>>],
      [width |-> 1, height |-> 2, mel |-> <<NotANumber, Infinity>>],
      [width |-> 1, height |-> 1, mel |-> <<dB(-32)>>],
      [width |-> 10, height |-> 2,
       mel |-> <<dB(-64), dB(-32), dB(-32), dB(-32), dB(-32), dB(-32), dB(-32), dB(-32),
                 dB(-32), dB(-32), dB(0), dB(0), dB(0), dB(0), dB(0), dB(0), dB(0), dB(0),
                 dB(0), dB(0)>>],
      [width |-> 3, height |-> 2, mel |-> <<dB(-64), dB(0), dB(-32), dB(-64)>>] }

\* the display parameters of a render message: the values SettingsModal produces
\* with parseInt / parseFloat, NaN for an emptied field
RasterDisplays ==
    [dynamicGain : BOOLEAN,
     gainPercentile : {NaN, 0, 3, 50, 98, 100},
     autoGamma : BOOLEAN,
     gammaValue : {Fin(1, 1), Fin(2, 1), NotANumber},
     brightness : {Fin(-1, 2), Fin(0, 1), Fin(1, 4), NotANumber},
     contrast : {Fin(1, 2), Fin(1, 1), Fin(2, 1), NotANumber}]

\* the render branch after assembleWindowMel returned a buffer with frames > 0
RasterInit ==
    /\ WorkerInit
    /\ tiling = NoEntry
    /\ keying = NoEntry
    /\ viewport = NoEntry
    /\ \E m \in MelImages, p \in RasterDisplays :
          raster = [mel |-> m.mel, width |-> m.width, height |-> m.height, p |-> p,
                    done |-> FALSE, smin |-> NotANumber, smax |-> NotANumber,
                    gamma |-> NotANumber,
                    data |-> [o \in 0..(m.width * m.height - 1) |-> <<>>]]

\* lines 224-279: normalization bounds, gamma and the rasterize loops
DisplayMap ==
    /\ raster # NoEntry
    /\ ~raster.done
    /\ LET b == normalizationBounds(raster.mel, raster.p)
           gamma == gammaFor(raster.mel, raster.p, b.smin, b.smax)
       IN raster' = [raster EXCEPT
                        !.done = TRUE, !.smin = b.smin, !.smax = b.smax, !.gamma = gamma,
                        !.data = rasterize(raster.data, raster.mel, raster.width,
                                           raster.height, raster.p, b.smin, b.smax, gamma)]
    /\ UNCHANGED <<inbox, sent, wasmReady, pcmStore, melTileCache, awaiting, replies, log,
                   center, caller, tiling, keying, viewport, micro>>

RasterSpec == RasterInit /\ [][DisplayMap]_vars

\* the display mapping of a render has run
Mapped == raster # NoEntry /\ raster.done

\* every write made to the image data
Writes == { w \in UNION { { raster.data[o][i] : i \in 1..Len(raster.data[o]) } :
                           o \in DOMAIN raster.data } : TRUE }

----------------------------------------------------------------------------
(* C23 - C27: display intensities, colour indices, pixels, bounds and gamma *)

\* C23: for all inputs every display intensity (clampedValue) is a number in [0,1]
\* and every colour index (num) lies in 0..255.
C23_IntensityAndIndexInRange ==
    Mapped =>
      \A w \in Writes :
         /\ isFinite(w.clampedValue)
         /\ ~LessThan(w.clampedValue, Fin(0, 1))
         /\ ~GreaterThan(w.clampedValue, Fin(1, 1))
         /\ w.num \in 0..255

\* C24 as stated: the colour index of a sample is the integer nearest to
\* adjusted * 255, for every clamped intensity adjusted in [0,1] (either neighbour
\* at a tie).
C24_IndexIsRounded ==
    Mapped =>
      \A w \in Writes :
         isFinite(w.clampedValue)
         => Abs(2 * 255 * w.clampedValue.n - 2 * w.num * w.clampedValue.d)
               <= w.clampedValue.d


\* C24 as amended: the colour index of a sample is adjusted * 255 truncated to an
\* integer, floor(adjusted * 255), for every clamped intensity adjusted in [0,1].
C24_IndexIsTruncated ==
    Mapped =>
      \A w \in Writes :
         isFinite(w.clampedValue)
         => /\ w.num * w.clampedValue.d <= 255 * w.clampedValue.n
            /\ 255 * w.clampedValue.n < (w.num + 1) * w.clampedValue.d

C24_Witness ==
    /\ Mapped
    /\ \E w \in Writes : w.clampedValue = Fin(1, 4) /\ w.num = 63
\* C25: every pixel of the width x height image is written exactly once, pixel
\* (x, y) from the value of time frame x and mel bin height - 1 - y of the buffer,
\* with alpha 255.
C25_PixelIsFrameAndBin ==
    Mapped =>
      \A x \in 0..(raster.width - 1), y \in 0..(raster.height - 1) :
         LET writes == raster.data[y * raster.width + x]
             bin == raster.height - 1 - y
         IN /\ Len(writes) = 1
            /\ writes[1].read = x * raster.height + bin
            /\ x * raster.height + bin < Len(raster.mel)
            /\ writes[1].v = raster.mel[x * raster.height + bin + 1]
            /\ writes[1].alpha = 255

\* C26: with dynamicGain and n >= 1 finite values, smin is the sorted value at index
\* min(floor(0.05 n), n - 1) and smax the sorted value at index
\* min(floor(gainPercentile / 100 * n), n - 1), replaced by smin + epsilon when it
\* is not above smin; with at least one finite value smax > smin in every case.
C26_PercentileBounds ==
    Mapped =>
      LET sorted == sortedFinite(raster.mel)
          n == Len(sorted)
          low == sorted[Min((5 * n) \div 100, n - 1) + 1]
          high == sorted[Min((raster.p.gainPercentile * n) \div 100, n - 1) + 1]
      IN n >= 1 =>
           /\ GreaterThan(raster.smax, raster.smin)
           /\ raster.p.dynamicGain =>
                /\ raster.smin = low
                /\ raster.p.gainPercentile # NaN =>
                     raster.smax = IF GreaterThan(high, low) THEN high
                                   ELSE Plus(low, Epsilon)

C26_Witness ==
    /\ Mapped
    /\ raster.p.dynamicGain
    /\ raster.p.gainPercentile = 3
    /\ Len(filterFinite(raster.mel)) = 20
    /\ raster.smin = dB(-32)
    /\ raster.smax = Plus(dB(-32), Epsilon)

\* C27: with autoGamma, gamma is 0.6 when the median normalized against
\* (smin, smax) is below 0.3, 1.4 when it is above 0.7 and 1.0 otherwise; without
\* autoGamma, gamma is the configured gammaValue.
C27_GammaSelection ==
    Mapped =>
      LET sorted == sortedFinite(raster.mel)
          mid == IF Len(sorted) > 0 THEN sorted[(Len(sorted) \div 2) + 1] ELSE Fin(0, 1)
          normalizedMedian == Divide(Minus(mid, raster.smin), Minus(raster.smax, raster.smin))
      IN IF raster.p.autoGamma
         THEN /\ raster.gamma \in {Fin(3, 5), Fin(1, 1), Fin(7, 5)}
              /\ LessThan(normalizedMedian, Fin(3, 10)) <=> raster.gamma = Fin(3, 5)
              /\ GreaterThan(normalizedMedian, Fin(7, 10)) <=> raster.gamma = Fin(7, 5)
         ELSE raster.gamma = raster.p.gammaValue

C27_Witness ==
    /\ Mapped
    /\ raster.p.autoGamma
    /\ raster.p.gammaValue = Fin(2, 1)
    /\ raster.gamma = Fin(7, 5)
    /\ raster.smax = dB(0)

----------------------------------------------------------------------------
(* C22: the object URLs of the caller *)

\* C22: in every caller state at most one object URL is created and not revoked,
\* and after the unmount none is.
C22_AtMostOneObjectUrl ==
    /\ Cardinality(caller.urls) <= 1
    /\ caller.urls \subseteq {caller.lastObjectUrl}
    /\ caller.terminated => caller.urls = {}

C22_Witness ==
    /\ caller.terminated
    /\ caller.created >= 2
    /\ caller.urls = {}

----------------------------------------------------------------------------
(* C31: the text of a tile key *)

\* the decimal digits of a non-negative integer, as characters
RECURSIVE Digits(_)
Digits(n) ==
    IF n < 10 THEN <<SubSeq("0123456789", n + 1, n + 1)>>
    ELSE Append(Digits(n \div 10), SubSeq("0123456789", (n % 10) + 1, (n % 10) + 1))

\* Number::toString of an integer-valued double or of NaN, as `${x}` applies it
NumberToString(x) ==
    IF x = NaN THEN <<"N", "a", "N">>
    ELSE IF x < 0 THEN <<"-">> \o Digits(-x)
    ELSE Digits(x)

\* variant of tileKeyText: the parts are joined without the ':' separators
tileKeyText_unseparated(fileId, startFrame, tileFrames, p) ==
    fileId \o NumberToString(startFrame) \o NumberToString(tileFrames)
    \o NumberToString(p.sampleRate) \o NumberToString(p.n_fft)
    \o NumberToString(p.win_length) \o NumberToString(p.hop_length)
    \o NumberToString(p.n_mels) \o NumberToString(p.f_min)
    \o NumberToString(p.f_max) \o NumberToString(p.top_db)

\* the template literal of tileKey, character by character
tileKeyText(fileId, startFrame, tileFrames, p) ==
    fileId \o <<":">> \o NumberToString(startFrame)
    \o <<":">> \o NumberToString(tileFrames)
    \o <<":">> \o NumberToString(p.sampleRate)
    \o <<":">> \o NumberToString(p.n_fft)
    \o <<":">> \o NumberToString(p.win_length)
    \o <<":">> \o NumberToString(p.hop_length)
    \o <<":">> \o NumberToString(p.n_mels)
    \o <<":">> \o NumberToString(p.f_min)
    \o <<":">> \o NumberToString(p.f_max)
    \o <<":">> \o NumberToString(p.top_db)

\* file ids are file paths: plain names, names with digits and names with colons
KeyFileIds ==
    { <<"a">>, <<"a", "1">>, <<"a", ":", "1">>, <<"a", ":", "1", ":", "1">>,
      <<"C", ":", "a">> }

\* values of the numeric parts: frame numbers, tile widths and settings, among them
\* values whose digits run together when joined (1, 10, 11, 0) and the NaN of an
\* emptied settings field
KeyNumbers == {0, 1, 10, 11, 256, 1024, NaN}

\* the eleven parts of a key as a tuple, in the order of the template literal
KeyParts(fileId, startFrame, tileFrames, p) ==
    <<fileId, startFrame, tileFrames>> \o AnalysisOf(p)

\* the arguments of tileKey behind a tuple of parts
KeyArgs(t) ==
    [fileId |-> t[1], startFrame |-> t[2], frames |-> t[3],
     p |-> [sampleRate |-> t[4], n_fft |-> t[5], win_length |-> t[6], hop_length |-> t[7],
            n_mels |-> t[8], f_min |-> t[9], f_max |-> t[10], top_db |-> t[11]]]

\* parts of the tiles of the first window of a file under the default settings
KeyBases ==
    { <<f, s, 1024, 16384, 2048, 1024, 256, 64, 10, 8000, 80>> :
        f \in KeyFileIds, s \in {0, 1024} }

\* a tuple of parts with the parts at positions i and j replaced
Replaced(t, i, x, j, y) ==
    [k \in 1..11 |-> IF k = j THEN y ELSE IF k = i THEN x ELSE t[k]]

KeyValues(i) == IF i = 1 THEN KeyFileIds ELSE KeyNumbers

\* a tile is about to be stored under the key of a and looked up under the key of
\* b, where b is a with up to two of its parts changed
KeyingInit ==
    /\ WorkerInit
    /\ tiling = NoEntry
    /\ raster = NoEntry
    /\ viewport = NoEntry
    /\ \E t \in KeyBases : \E i, j \in 1..11 :
         \E x \in KeyValues(i) : \E y \in KeyValues(j) :
            /\ i <= j
            /\ keying = [a |-> KeyArgs(t), b |-> KeyArgs(Replaced(t, i, x, j, y)),
                         done |-> FALSE, ka |-> <<>>, kb |-> <<>>, hit |-> FALSE]

\* melTileCache.set(tileKey(a), tile) followed by melTileCache.has(tileKey(b))
StoreAndLookup ==
    /\ keying # NoEntry
    /\ ~keying.done
    /\ LET a == keying.a
           b == keying.b
           ka == tileKeyText(a.fileId, a.startFrame, a.frames, a.p)
           kb == tileKeyText(b.fileId, b.startFrame, b.frames, b.p)
           cache == ka :> "tile"
       IN keying' = [keying EXCEPT !.done = TRUE, !.ka = ka, !.kb = kb,
                                   !.hit = kb \in DOMAIN cache]
    /\ UNCHANGED <<inbox, sent, wasmReady, pcmStore, melTileCache, awaiting, replies, log,
                   center, caller, tiling, raster, viewport, micro>>

\* tileKey applied to pairs of argument lists
KeyingSpec == KeyingInit /\ [][StoreAndLookup]_vars

\* C31: the key is injective on (fileId, startFrame, frameCount, sampleRate, n_fft,
\* win_length, hop_length, n_mels, f_min, f_max, top_db): a tile stored under the
\* key of one argument list is found under the key of another exactly when all
\* eleven parts agree, so a change of the fileId or of any analysis parameter
\* misses the cache and forces recomputation.
C31_KeyIsInjective ==
    (keying # NoEntry /\ keying.done)
    => LET a == keying.a
           b == keying.b
       IN /\ keying.hit <=> (keying.ka = keying.kb)
          /\ keying.hit <=> KeyParts(a.fileId, a.startFrame, a.frames, a.p)
                              = KeyParts(b.fileId, b.startFrame, b.frames, b.p)

\* a lookup that misses although only the file id differs, and the two file ids
\* are a name and the same name followed by a colon and a digit
C31_Witness ==
    /\ keying # NoEntry
    /\ keying.done
    /\ ~keying.hit
    /\ keying.a.fileId = <<"a">>
    /\ keying.b.fileId = <<"a", ":", "1">>
    /\ keying.b.startFrame = 1
    /\ keying.a.p = keying.b.p

----------------------------------------------------------------------------
(* C32: the cache after a redelivery of PCM *)

\* C32: every cached tile of a fileId was computed from the sample buffer that is
\* currently stored for that fileId, so a render after a redelivery of the file's
\* PCM with other samples never returns tiles of the replaced samples.
C32_CachedTilesFromCurrentPcm ==
    \A k \in DOMAIN melTileCache :
        \A i \in 1..Len(melTileCache[k]) :
            /\ pcmStore[k[1]] # NoEntry
            /\ melTileCache[k][i].pcm = pcmStore[k[1]].pcm.id

----------------------------------------------------------------------------
(* C33: the render handler task by task *)

\* The handler is an async function.  `await ensureWasmInitialized()` suspends it
\* on a promise that is already resolved (ensureWasmInitialized awaits nothing), so
\* its continuation is a microtask; `await off.convertToBlob()` suspends it until
\* the encoder is done.  The event loop of the worker runs one task at a time and
\* empties the microtask queue at the end of each task.

\* the messages of a caller that delivers the PCM of one file twice, with
\* different samples, and renders two windows of it
TaskMsgs ==
    {InitMsg, SetPcmMsg("f1", [id |-> 1, len |-> 983040]),
     SetPcmMsg("f1", [id |-> 2, len |-> 163840])}
    \cup { RenderMsg("f1", RenderParams(ap, DefaultDisplay, w[1], 20)) :
             ap \in AnalysisParams, w \in {<<0>>, <<16>>} }

\* variant of TaskMayStart: a task is started while microtasks are still queued
TaskMayStart_beforeMicrotasks == TRUE

\* the event loop picks the next task only after the microtask checkpoint that
\* ends the previous one
TaskMayStart == micro = <<>>

\* self.onmessage for an init or render message, up to `await
\* ensureWasmInitialized()`: the call sets wasmReady and the rest of the handler
\* is queued as a microtask (cache and store are the worker state at this moment)
StartHandler ==
    /\ TaskMayStart
    /\ inbox # <<>>
    /\ inbox[1].type \in {"init", "render"}
    /\ inbox' = Tail(inbox)
    /\ wasmReady' = TRUE
    /\ micro' = Append(micro, [seq |-> HeadSeq, msg |-> inbox[1],
                               cache |-> melTileCache, store |-> pcmStore])
    /\ log' = IF inbox[1].type = "init" THEN Append(log, LogEntry(HeadSeq, inbox[1]))
              ELSE log
    /\ UNCHANGED <<sent, pcmStore, melTileCache, awaiting, replies, center, caller,
                   tiling, raster, keying, viewport>>

\* the set_pcm branch, which awaits nothing, as a task of its own
StartSetPcm ==
    /\ TaskMayStart
    /\ HandleSetPcm

\* the microtask at the head of the queue runs: an init handler returns, a render
\* handler runs from `const p = msg.params` to `await off.convertToBlob()` or to
\* the end of its catch block
ResumeHandler ==
    /\ micro # <<>>
    /\ micro' = Tail(micro)
    /\ IF micro[1].msg.type = "render"
       THEN renderBody(micro[1].seq, micro[1].msg)
       ELSE UNCHANGED <<melTileCache, replies, awaiting, log>>
    /\ UNCHANGED <<inbox, sent, wasmReady, pcmStore, center, caller,
                   tiling, raster, keying, viewport>>

\* the encoder is done: the task that resolves the blob promise
SettleBlob(h) ==
    /\ TaskMayStart
    /\ BlobDone(h)

TaskNext ==
    \/ \E m \in TaskMsgs : Post(m)
    \/ StartHandler
    \/ StartSetPcm
    \/ ResumeHandler
    \/ \E h \in awaiting : SettleBlob(h)

\* the worker with its handlers split at every await
TaskSpec == Init /\ [][TaskNext]_vars

\* the log entry of the render with arrival number s
RenderEntry(l, s) == l[CHOOSE i \in 1..Len(l) : l[i].seq = s]

\* the blob a finished render handler encodes
BlobOf(e) ==
    IF e.frames <= 0 THEN PlaceholderImage ELSE ImageOf(e.mel, e.frames, e.params)

\* C33: the cache and store accesses of one render run as one uninterrupted step:
\* when the handler resumes after its first await the store and the cache are
\* still what they were when the render was dequeued, its mel buffer and the tiles
\* it caches are those of assembleWindowMel applied to that state, and the image
\* it posts later holds that mel buffer, whatever arrives while it is encoded.
C33_RenderIsOneStep ==
    [][ /\ (micro # <<>> /\ micro' = Tail(micro) /\ micro[1].msg.type = "render")
           => LET m == micro[1]
                  e == log'[Len(log')]
              IN /\ melTileCache = m.cache
                 /\ pcmStore = m.store
                 /\ Len(log') = Len(log) + 1
                 /\ e.seq = m.seq
                 /\ \E failAt \in 0..Len(e.missing) :
                       LET r == assembleWindowMel(m.cache, m.store, m.msg.fileId,
                                                  m.msg.params, failAt, center)
                       IN /\ e.mel = r.mel
                          /\ e.thrown = handlerThrown(r)
                          /\ melTileCache' = r.cache
        /\ \A i \in 1..Len(replies') :
              replies'[i].type = "image"
              => replies'[i].blob = BlobOf(RenderEntry(log', replies'[i].seq))
      ]_vars

\* an image has been posted for a render of f1 although, since that render was
\* dequeued, other samples were stored for f1: the image holds the mel buffer of
\* the samples stored at the dequeue
C33_Witness ==
    \E i \in 1..Len(replies) :
        /\ replies[i].type = "image"
        /\ replies[i].blob.mel # <<>>
        /\ pcmStore["f1"] # NoEntry
        /\ replies[i].blob.mel[1].pcm # pcmStore["f1"].pcm.id
        /\ \E j \in 1..Len(log) : log[j].type = "set_pcm" /\ log[j].seq > replies[i].seq

----------------------------------------------------------------------------
(* C34: the image on display *)

\* arrival numbers of the render requests posted so far
RenderSeqs == { s \in 1..Len(sent) : sent[s].type = "render" }

\* the last render request posted
LastRender == CHOOSE s \in RenderSeqs : \A t \in RenderSeqs : t <= s

\* the caller is mounted, every request has been handled and replied to, and every
\* reply has been handed to worker.onmessage
Settled ==
    /\ caller.mounted
    /\ inbox = <<>>
    /\ awaiting = {}
    /\ caller.delivered = Len(replies)

\* C34: once the caller has stopped posting and the worker has replied to every
\* request, the image on display is the one produced for the last render request
\* (stated for the sequences whose last render request was answered with an image).
C34_DisplaysLastRender ==
    (/\ Settled
     /\ RenderSeqs # {}
     /\ \E i \in 1..Len(replies) : replies[i].seq = LastRender /\ replies[i].type = "image")
    => caller.shown = LastRender

----------------------------------------------------------------------------
(* C35 - C36: the samples of a file *)

\* C35: every set_pcm message the caller posts pairs a fileId with the samples
\* decoded from that same file.
C35_SetPcmPairsFileWithItsSamples ==
    \A s \in 1..Len(sent) :
        sent[s].type = "set_pcm" => sent[s].pcm = AudioOf(sent[s].fileId)

\* C36: when no fetch is in flight any more, the samples the provider holds are
\* those of the most recent src: a load of a previous src that completes later
\* does not overwrite them.
C36_SamplesOfMostRecentSrc ==
    (caller.mounted /\ caller.loading = {} /\ caller.audioSamples # NoEntry)
    => caller.audioSamples = AudioOf(caller.fileId)

----------------------------------------------------------------------------
(* C37 - C38: the viewport of SpectrogramProvider *)

\* Times of the viewport are counted in units of 1/40 s.  Durations, playback
\* positions and click positions are multiples of 1/8 s, so every sum and
\* difference below is exact in doubles except the ones with 0.1, and no value
\* compared with such a sum is within a rounding error of it.
Units(seconds) == 40 * seconds

\* the 0.1 s of the auto-scroll conditions
Tolerance == 4

\* duration === null
NoDuration == -1

\* audioRef.current.duration of the files: 60 s, 20 s, 15.125 s and 10 s
Durations == {Units(60), Units(20), 605, Units(10)}

\* playback and click positions
Positions ==
    {0, 5, 295, 300, 305, 395, 400, 595, 600, 605, 610, 795, 800, 1200, 1205, 1800,
     1805, 2395, 2400}

\* useState initial values of the provider
ViewportMounted ==
    [duration |-> NoDuration, currentTime |-> 0, startTime |-> 0, isLoading |-> FALSE,
     last |-> "mount"]

\* variant of enforceBoundaries: the start is not pulled back when the window
\* would extend beyond the duration
enforceBoundaries_noEndClamp(v, start) ==
    IF v.duration = NoDuration \/ v.duration = 0 THEN start
    ELSE Max(0, start)

\* enforceBoundaries(start) in a render with the state v
enforceBoundaries(v, start) ==
    IF v.duration = NoDuration \/ v.duration = 0 THEN start
    ELSE LET boundedStart == Max(0, start)
             boundedEnd == boundedStart + Units(windowDuration)
         IN IF boundedEnd > v.duration
            THEN Max(0, v.duration - Units(windowDuration))
            ELSE boundedStart

\* variant of autoScroll: the viewport pages back as soon as the playback position
\* is less than 0.1 s after its start
autoScroll_eagerBack(v) ==
    LET endTime == v.startTime + Units(windowDuration)
    IN IF v.isLoading THEN v.startTime
       ELSE IF v.currentTime >= endTime /\ v.currentTime <= endTime + Tolerance
            THEN enforceBoundaries(v, endTime)
       ELSE IF v.currentTime > endTime + Tolerance
            THEN enforceBoundaries(v, endTime)
       ELSE IF v.currentTime < v.startTime + Tolerance
            THEN enforceBoundaries(v, v.startTime - Units(windowDuration))
       ELSE v.startTime

\* the start time the auto-scroll effect sets in a render with the state v (the
\* current one if it sets none)
autoScroll(v) ==
    LET endTime == v.startTime + Units(windowDuration)
    IN IF v.isLoading THEN v.startTime
       ELSE IF v.currentTime >= endTime /\ v.currentTime <= endTime + Tolerance
            THEN enforceBoundaries(v, endTime)
       ELSE IF v.currentTime > endTime + Tolerance
            THEN enforceBoundaries(v, endTime)
       ELSE IF v.currentTime < v.startTime - Tolerance
            THEN enforceBoundaries(v, v.startTime - Units(windowDuration))
       ELSE v.startTime

ViewportUnchanged ==
    UNCHANGED <<inbox, sent, wasmReady, pcmStore, melTileCache, awaiting, replies, log,
                center, caller, tiling, raster, keying, micro>>

\* the audio element reports its duration: setDuration, then the effects of that
\* commit, in which the viewport is initialised and the auto-scroll effect runs
\* with the start and playback position of the render before
DurationKnown(d) ==
    /\ viewport.duration = NoDuration
    /\ LET v == [viewport EXCEPT !.duration = d]
       IN viewport' = [v EXCEPT !.currentTime = 0,
                                !.startTime = IF autoScroll(v) # v.startTime
                                              THEN autoScroll(v) ELSE 0,
                                !.last = "duration"]
    /\ ViewportUnchanged

\* SpectrogramNavigator.updateComplete: a click or the end of a drag at the
\* position of newTime
NavigatorClick(newTime) ==
    /\ viewport.duration # NoDuration
    /\ newTime <= viewport.duration
    /\ viewport' = [viewport EXCEPT
                       !.startTime = enforceBoundaries(viewport,
                                         newTime - Units(windowDuration) \div 2),
                       !.currentTime = newTime,
                       !.last = "setStartTime"]
    /\ ViewportUnchanged

\* SpectrogramViewer.onWheel: scroll(+/- windowDuration * 0.1)
Scroll(sign) ==
    /\ viewport.duration # NoDuration
    /\ viewport' = [viewport EXCEPT
                       !.startTime = enforceBoundaries(viewport,
                                         viewport.startTime
                                           + sign * (Units(windowDuration) \div 10)),
                       !.last = "scroll"]
    /\ ViewportUnchanged

\* the playback position changes: onTimeUpdate, the play interval, or a click in
\* SpectrogramViewer
SetCurrentTime(t) ==
    /\ viewport.duration # NoDuration
    /\ t <= viewport.duration
    /\ t # viewport.currentTime
    /\ viewport' = [viewport EXCEPT !.currentTime = t, !.last = "currentTime"]
    /\ ViewportUnchanged

\* the auto-scroll effect sets another start time
AutoScroll ==
    /\ autoScroll(viewport) # viewport.startTime
    /\ viewport' = [viewport EXCEPT !.startTime = autoScroll(viewport),
                                    !.last = "auto"]
    /\ ViewportUnchanged

ViewportInit ==
    /\ WorkerInit
    /\ tiling = NoEntry
    /\ raster = NoEntry
    /\ keying = NoEntry
    /\ viewport = ViewportMounted

ViewportNext ==
    \/ \E d \in Durations : DurationKnown(d)
    \/ \E t \in Positions : NavigatorClick(t)
    \/ \E sign \in {-1, 1} : Scroll(sign)
    \/ \E t \in Positions : SetCurrentTime(t)
    \/ AutoScroll

\* the provider under clicks, wheel events, playback and its auto-scroll effect
ViewportSpec == ViewportInit /\ [][ViewportNext]_vars

\* C37: whenever the duration is known, after any sequence of setStartTime, scroll
\* and auto-scroll steps 0 <= startTime <= max(0, duration - windowDuration).
C37_StartTimeWithinBounds ==
    (viewport # NoEntry /\ viewport.duration # NoDuration)
    => /\ 0 <= viewport.startTime
       /\ viewport.startTime <= Max(0, viewport.duration - Units(windowDuration))

\* a wheel event at the end of a file longer than the window left the viewport at
\* duration - windowDuration
C37_Witness ==
    /\ viewport # NoEntry
    /\ viewport.last = "scroll"
    /\ viewport.duration = 605
    /\ viewport.startTime = 5

\* start times the viewport can be left at when the playback position is set:
\* every click and wheel position between 0 and max(0, duration - windowDuration)
RestStarts(d) ==
    { s \in {0, 5, 60, 100, 195, 200, 300, 595, 600, 605, 1200, 1795, 1800} :
        s <= Max(0, d - Units(windowDuration)) }

\* the duration is known, the viewport is somewhere and the playback position is
\* held at some point of the file
HeldInit ==
    /\ WorkerInit
    /\ tiling = NoEntry
    /\ raster = NoEntry
    /\ keying = NoEntry
    /\ \E d \in Durations : \E t \in Positions : \E s \in RestStarts(d) :
          /\ t <= d
          /\ viewport = [ViewportMounted EXCEPT !.duration = d, !.currentTime = t,
                                                !.startTime = s, !.last = "currentTime"]

\* the auto-scroll effect alone; it runs after every commit that changed one of
\* its dependencies
HeldSpec == HeldInit /\ [][AutoScroll]_vars /\ WF_vars(AutoScroll)

\* the auto-scroll effect sets no other start time
AtRest == autoScroll(viewport) = viewport.startTime

\* C38: with currentTime held fixed in [0, duration] and not loading, the
\* auto-scroll effect reaches a fixed point after finitely many steps, and there
\* startTime - 0.1 <= currentTime <= startTime + windowDuration.
C38_AutoScrollSettles ==
    <>[](/\ AtRest
         /\ viewport.startTime - Tolerance <= viewport.currentTime
         /\ viewport.currentTime <= viewport.startTime + Units(windowDuration))

\* the effect came to rest after paging forward to the end of the 60 s file
C38_Witness ==
    /\ viewport # NoEntry
    /\ AtRest
    /\ viewport.last = "auto"
    /\ viewport.duration = Units(60)
    /\ viewport.currentTime = viewport.duration
    /\ viewport.startTime = viewport.duration - Units(windowDuration)

====
